---- MODULE Spec2Model ----
(***************************************************************************)
(* Model of the SARIF diagnostic pipeline of shiftleft-scan-vscode:        *)
(* SVDiagnosticCollection (mapped / unmapped buckets, run collection,      *)
(* display synchronization), SVDiagnosticFactory (create, remap, message   *)
(* prefix, severity) and LogReader (document read).                        *)
(***************************************************************************)
EXTENDS Integers, Sequences, FiniteSets, TLC

VARIABLES
  runInfoCollection,        \* SVDiagnosticCollection.runInfoCollection : RunInfo[]
  mappedIssuesCollection,   \* Map<string, diagnostic[]>, insertion ordered
  unmappedIssuesCollection, \* Map<string, diagnostic[]>, insertion ordered
  diagnosticCollection,     \* the vscode DiagnosticCollection (what is displayed)
  heap,                     \* the SarifViewerVsCodeDiagnostic objects, by reference
  fileRemapping,            \* FileMapper: the artifacts that resolve to a local file
  openDocs,                 \* SARIF documents open in the workspace
  fired,                    \* events fired on diagnosticCollectionChanged by the last step
  lastCall,                 \* the handler that ran in the last step, and its outcome
  highestIssued,            \* the highest run id addRunInfoAndCalculateId has returned
  reading,                  \* per document, where a suspended LogReader.read stands
  progress,                 \* ProgressHelper.Instance.Progress is set
  sarifJSONMapping,         \* LogReader.sarifJSONMapping, where ranges are modelled
  remaps,                   \* the invocations of mappingChanged suspended at an await
  threadFlowLocationsMap,   \* CodeFlowFactory's threadFlowLocations : Map<string, ThreadFlowLocation>
  scanState                 \* Scan's static fields, and the subprocesses it has started

vars == <<runInfoCollection, mappedIssuesCollection, unmappedIssuesCollection,
          diagnosticCollection, heap, fileRemapping, openDocs, fired, lastCall,
          highestIssued, reading, progress, sarifJSONMapping, remaps,
          threadFlowLocationsMap, scanState>>

----------------------------------------------------------------------------
(* Bounds *)

MaxDiagnosticsPerFile == 2
MaxRunId == 3
\* the same two bounds where closes and clears interleave with suspended handlers
MaxSuspendedDiags == 3
MaxSuspendedRunId == 1

----------------------------------------------------------------------------
(* Values *)

Docs == {"/w/a.sarif", "/w/b.sarif"}
Artifacts == {"f1.c", "f2.c"}


NoUri == [defined |-> FALSE, fsPath |-> <<>>, fragment |-> ""]
FileUri(p) == [defined |-> TRUE, fsPath |-> p, fragment |-> ""]

NoLocation == [defined |-> FALSE, uri |-> NoUri, mapped |-> FALSE]

UnmappedPrefix == "[Unmapped] "

DiagnosticSeverity == [Error |-> 0, Warning |-> 1, Information |-> 2, Hint |-> 3]

\* JavaScript truthiness of a number, as used by the || operator
Truthy(n) == n # 0

\* A looked-up value that is absent from a Map (undefined)
Undefined == 0 - 1

\* Body applied to the value of an expression: the expression is evaluated once,
\* as a statement's result is in the code, however often the body reads it
With(value, Body(_)) == CHOOSE result \in {Body(v) : v \in {value}} : TRUE


----------------------------------------------------------------------------
(* Insertion-ordered Map, as a sequence of <<key, value>> entries *)

MapKeys(m) == [i \in 1..Len(m) |-> m[i].key]
MapHas(m, k) == \E i \in 1..Len(m) : m[i].key = k
MapIndex(m, k) == CHOOSE i \in 1..Len(m) : m[i].key = k
MapGet(m, k) == m[MapIndex(m, k)].value
MapSet(m, k, v) ==
  IF MapHas(m, k)
  THEN [m EXCEPT ![MapIndex(m, k)] = [key |-> k, value |-> v]]
  ELSE Append(m, [key |-> k, value |-> v])
MapDelete(m, k) == SelectSeq(m, LAMBDA e : e.key # k)

\* every diagnostic reference stored in a bucket
RECURSIVE Flatten(_)
Flatten(m) == IF m = <<>> THEN <<>> ELSE Head(m).value \o Flatten(Tail(m))

SeqToSet(s) == {s[i] : i \in 1..Len(s)}

----------------------------------------------------------------------------
(* Inputs: the raw SARIF results a log can hold.  locations lists the      *)
(* artifacts of the result's physical locations, text is the message text  *)
(* ("" when the result has none), level is the result level.  A log is the *)
(* sequence of its runs, a run the sequence of its results.                *)

InFile1 == [locations |-> <<"f1.c">>,         text |-> "msg", level |-> "error"]
InFile2 == [locations |-> <<"f2.c", "f1.c">>, text |-> "msg", level |-> "warning"]
Nowhere == [locations |-> <<>>,               text |-> "msg", level |-> "note"]
NoText  == [locations |-> <<"f1.c">>,         text |-> "",    level |-> "none"]

SarifLogs ==
  { <<>>,
    << <<InFile2, InFile1>> >>,
    << <<Nowhere>>, <<InFile1>> >>,
    << <<InFile1, NoText>>, <<InFile2>> >>,
    << <<InFile1, InFile1, InFile1>> >> }

RECURSIVE CountResults(_)
CountResults(log) == IF log = <<>> THEN 0 ELSE Len(Head(log)) + CountResults(Tail(log))

----------------------------------------------------------------------------
(* Utilities *)

Max(S) == CHOOSE n \in S : \A m \in S : m <= n

\* the heap has a cell for every result of every open document
MaxDiags == Cardinality(Docs) * Max({CountResults(log) : log \in SarifLogs})
Refs == 1..MaxDiags

getFsPathWithFragment(uri) ==
  LET fragment == IF uri.fragment # "" THEN <<"#", uri.fragment>> ELSE <<>>
  IN uri.fsPath \o fragment

----------------------------------------------------------------------------
(* FileMapper and LocationFactory *)

\* FileMapper.get: {mapped, uri?} of an artifact under the current mapping
FileMapperGet(remapping, artifact) ==
  IF artifact \in remapping
  THEN [mapped |-> TRUE,  uri |-> FileUri(<<"/local", artifact>>)]
  ELSE [mapped |-> FALSE, uri |-> FileUri(<<"/orig", artifact>>)]

\* LocationFactory.create: the uri is kept only when the artifact is mapped
LocationCreate(remapping, artifact) ==
  LET mappedUri == FileMapperGet(remapping, artifact)
  IN [defined |-> TRUE,
      uri     |-> IF mappedUri.mapped THEN mappedUri.uri ELSE NoUri,
      mapped  |-> mappedUri.mapped]

\* ResultInfoFactory.parseLocations
parseLocations(remapping, sarifLocations) ==
  [i \in 1..Len(sarifLocations) |-> LocationCreate(remapping, sarifLocations[i])]

\* LocationFactory.mapToSarifFileLocation: a Location in the SARIF document itself
mapToSarifFileLocation(doc) ==
  [defined |-> TRUE, uri |-> FileUri(<<doc>>), mapped |-> FALSE]

----------------------------------------------------------------------------
(* SVDiagnosticFactory *)

sarifLevelToVsCodeSeverityMap ==
  << [key |-> "error",   value |-> DiagnosticSeverity.Error],
     [key |-> "none",    value |-> DiagnosticSeverity.Information],
     [key |-> "note",    value |-> DiagnosticSeverity.Information],
     [key |-> "warning", value |-> DiagnosticSeverity.Warning] >>

\* sarifLevelToVsCodeSeverityMap.get(level) || DiagnosticSeverity.Warning
getSeverity(level) ==
  LET found == IF MapHas(sarifLevelToVsCodeSeverityMap, level)
               THEN MapGet(sarifLevelToVsCodeSeverityMap, level)
               ELSE Undefined
  IN IF found # Undefined /\ Truthy(found) THEN found ELSE DiagnosticSeverity.Warning

\* Mutant of updateMessage: the prefix is put before the message the diagnostic
\* already shows
updateMessageAgain(diagnostic) ==
  LET message == diagnostic.message
  IN IF ~diagnostic.assignedLocation.defined \/ ~diagnostic.assignedLocation.mapped
     THEN <<UnmappedPrefix>> \o message
     ELSE message

\* the message is kept as the sequence of the pieces it is concatenated from
updateMessage(diagnostic) ==
  LET message == <<diagnostic.text>>
  IN IF ~diagnostic.assignedLocation.defined \/ ~diagnostic.assignedLocation.mapped
     THEN <<UnmappedPrefix>> \o message
     ELSE message

\* SVDiagnosticFactory.create; thrown is TRUE when the Error is thrown
SVDiagnosticFactoryCreate(runInfo, resultInfo, rawResult) ==
  IF ~resultInfo.assignedLocation.defined \/ resultInfo.text = ""
  THEN [thrown |-> TRUE, diagnostic |-> resultInfo]
  ELSE LET svDiagnostic ==
             [resultInfo EXCEPT !.severity = getSeverity(resultInfo.level)]
       IN [thrown |-> FALSE,
           diagnostic |-> [svDiagnostic EXCEPT !.message = updateMessage(svDiagnostic)]]

\* Mutant of tryToRemapLocations: the assigned location follows the first location
\* also when the first location did not resolve
tryToRemapLocationsRevert(remapping, diagnostic) ==
  LET parsedLocations == parseLocations(remapping, diagnostic.rawLocations)
      relocated == [diagnostic EXCEPT !.locations = parsedLocations]
      firstLocation == IF Len(parsedLocations) > 0 THEN parsedLocations[1] ELSE NoLocation
  IN IF firstLocation.defined
     THEN LET assigned == [relocated EXCEPT !.assignedLocation = firstLocation]
          IN [remapped   |-> firstLocation.mapped,
              diagnostic |-> [assigned EXCEPT !.message = updateMessage(assigned)]]
     ELSE [remapped |-> FALSE, diagnostic |-> relocated]

\* SVDiagnosticFactory.tryToRemapLocations on one diagnostic object
tryToRemapLocations(remapping, diagnostic) ==
  LET parsedLocations == parseLocations(remapping, diagnostic.rawLocations)
      relocated == [diagnostic EXCEPT !.locations = parsedLocations]
      firstLocation == IF Len(parsedLocations) > 0 THEN parsedLocations[1] ELSE NoLocation
  IN IF /\ firstLocation.defined
        /\ firstLocation.mapped
        /\ (~relocated.assignedLocation.defined \/ ~relocated.assignedLocation.mapped)
     THEN LET assigned == [relocated EXCEPT !.assignedLocation = firstLocation]
          IN [remapped   |-> TRUE,
              diagnostic |-> [assigned EXCEPT !.message = updateMessage(assigned)]]
     ELSE [remapped |-> FALSE, diagnostic |-> relocated]

\* ResultInfoFactory.create: the processed result, before it becomes a diagnostic
ResultInfoCreate(remapping, runInfo, sarifResult, resultIndex) ==
  LET locations == parseLocations(remapping, sarifResult.locations)
  IN [runId            |-> runInfo.id,
      id               |-> resultIndex,
      sarifFile        |-> runInfo.sarifFileFullPath,
      rawLocations     |-> sarifResult.locations,
      locations        |-> locations,
      assignedLocation |-> IF Len(locations) > 0 THEN locations[1] ELSE NoLocation,
      text             |-> sarifResult.text,
      level            |-> sarifResult.level,
      severity         |-> DiagnosticSeverity.Error,
      message          |-> <<sarifResult.text>>]

----------------------------------------------------------------------------
(* SVDiagnosticCollection.  A collection state c is the record of the      *)
(* object's fields: runs (runInfoCollection), mapped, unmapped (the two    *)
(* buckets), display (the vscode DiagnosticCollection), heap (the          *)
(* diagnostic objects) and fired (the events fired so far by the handler). *)

MaxDiagCollectionSize == MaxDiagnosticsPerFile - 1

Event(type, diagnostics) == [type |-> type, diagnostics |-> diagnostics]

Shown(ref) == [sentinel |-> FALSE, ref |-> ref, shown |-> 0, total |-> 0]
\* the synthesized "Only displaying <shown> of the total <total> results" diagnostic
MaxReachedDiag(total) ==
  [sentinel |-> TRUE, ref |-> 0, shown |-> MaxDiagCollectionSize, total |-> total]

\* DiagnosticCollection.set(uri, diags)
DisplaySet(display, uri, diags) ==
  [u \in DOMAIN display \cup {uri} |-> IF u = uri THEN diags ELSE display[u]]

\* Mutant of addToDiagnosticCollection: the sentinel takes one of the
\* MaxDiagCollectionSize places
RECURSIVE addToDiagnosticCollectionShort(_, _, _)
addToDiagnosticCollectionShort(display, collection, objects) ==
  IF collection = <<>> THEN display
  ELSE LET issues == Head(collection).value
           first  == objects[issues[1]].assignedLocation
       IN IF ~first.defined \/ ~first.uri.defined
          THEN addToDiagnosticCollectionShort(display, Tail(collection), objects)
          ELSE LET shownIssues == [i \in 1..Len(issues) |-> Shown(issues[i])]
                   diags ==
                     IF Len(issues) > MaxDiagCollectionSize
                     THEN <<MaxReachedDiag(Len(issues))>>
                            \o SubSeq(shownIssues, 1, MaxDiagCollectionSize - 1)
                     ELSE shownIssues
               IN addToDiagnosticCollectionShort(
                    DisplaySet(display, first.uri, diags), Tail(collection), objects)

\* private addToDiagnosticCollection(collection), entry by entry
RECURSIVE addToDiagnosticCollection(_, _, _)
addToDiagnosticCollection(display, collection, objects) ==
  IF collection = <<>> THEN display
  ELSE LET issues == Head(collection).value
           first  == objects[issues[1]].assignedLocation
       IN IF ~first.defined \/ ~first.uri.defined
          THEN addToDiagnosticCollection(display, Tail(collection), objects)
          ELSE LET shownIssues == [i \in 1..Len(issues) |-> Shown(issues[i])]
                   diags ==
                     IF Len(issues) > MaxDiagCollectionSize
                     THEN <<MaxReachedDiag(Len(issues))>>
                            \o SubSeq(shownIssues, 1, MaxDiagCollectionSize)
                     ELSE shownIssues
               IN With(DisplaySet(display, first.uri, diags), LAMBDA shown :
                    addToDiagnosticCollection(shown, Tail(collection), objects))

syncDiagnostics(c) ==
  LET cleared == <<>>
  IN With(addToDiagnosticCollection(cleared, c.mapped, c.heap), LAMBDA withMapped :
     With(addToDiagnosticCollection(withMapped, c.unmapped, c.heap), LAMBDA withUnmapped :
       [c EXCEPT !.display = withUnmapped,
                 !.fired = Append(c.fired, Event("Synchronize", <<>>))]))

\* private addToCollection(collection, issue)
addToCollection(collection, objects, issue) ==
  LET assigned == objects[issue].assignedLocation
  IN IF ~assigned.defined \/ ~assigned.uri.defined
     THEN collection
     ELSE LET key == getFsPathWithFragment(assigned.uri)
          IN IF MapHas(collection, key)
             THEN MapSet(collection, key, Append(MapGet(collection, key), issue))
             ELSE MapSet(collection, key, <<issue>>)

\* add(issue)
add(c, issue) ==
  LET assigned == c.heap[issue].assignedLocation
      filed ==
        IF assigned.defined /\ assigned.mapped
        THEN [c EXCEPT !.mapped = addToCollection(c.mapped, c.heap, issue)]
        ELSE [c EXCEPT !.unmapped = addToCollection(c.unmapped, c.heap, issue)]
  IN [filed EXCEPT !.fired = Append(c.fired, Event("Add", <<issue>>))]

addRunInfoAndCalculateIdByLength(c, runInfo) ==
  [c |-> [c EXCEPT !.runs = Append(c.runs, runInfo)], id |-> Len(c.runs)]

\* addRunInfoAndCalculateId(runInfo): the run is pushed as RunInfoFactory made it
addRunInfoAndCalculateId(c, runInfo) ==
  LET runInfoIdentifier ==
        IF Len(c.runs) # 0 THEN c.runs[Len(c.runs)].id + 1 ELSE 0
  IN [c |-> [c EXCEPT !.runs = Append(c.runs, runInfo)], id |-> runInfoIdentifier]

\* clear()
clear(c) ==
  [c EXCEPT !.display = <<>>, !.mapped = <<>>, !.unmapped = <<>>, !.runs = <<>>]

\* getResultInfo(resultId, runId): the reference found, 0 for undefined
FindIn(collection, objects, resultId, runId) ==
  LET all == Flatten(collection)
      hits == {i \in 1..Len(all) :
                 objects[all[i]].runId = runId /\ objects[all[i]].id = resultId}
  IN IF hits = {} THEN 0 ELSE all[CHOOSE i \in hits : \A j \in hits : i <= j]

getResultInfo(c, resultId, runId) ==
  LET unmappedHit == FindIn(c.unmapped, c.heap, resultId, runId)
  IN IF unmappedHit # 0 THEN unmappedHit
     ELSE FindIn(c.mapped, c.heap, resultId, runId)

\* getRunInfo(id): the index in the run collection of the run found, 0 for undefined
getRunInfo(c, id) ==
  LET hits == {i \in 1..Len(c.runs) : c.runs[i].id = id}
  IN IF hits = {} THEN 0 ELSE CHOOSE i \in hits : \A j \in hits : i <= j

\* removeRuns(path), the loop over the run collection from its end
RECURSIVE spliceRuns(_, _, _, _)
spliceRuns(runs, path, i, runsToRemove) ==
  IF i < 1 THEN [runs |-> runs, runsToRemove |-> runsToRemove]
  ELSE IF runs[i].sarifFileFullPath = path
       THEN With(SubSeq(runs, 1, i - 1) \o SubSeq(runs, i + 1, Len(runs)), LAMBDA spliced :
            With(Append(runsToRemove, runs[i].id), LAMBDA pushed :
              spliceRuns(spliced, path, i - 1, pushed)))
       ELSE spliceRuns(runs, path, i - 1, runsToRemove)

\* Mutant of spliceDiagnostics: the loop runs from the start of the array, so the
\* element that follows a removed one is skipped
RECURSIVE spliceDiagnosticsForward(_, _, _, _, _)
spliceDiagnosticsForward(diagnostics, objects, runsToRemove, i, diagnosticsRemoved) ==
  LET at == Len(diagnostics) - i + 1 + Len(diagnosticsRemoved)
  IN IF i < 1 \/ at > Len(diagnostics)
     THEN [diagnostics |-> diagnostics, diagnosticsRemoved |-> diagnosticsRemoved]
     ELSE IF \E n \in 1..Len(runsToRemove) : objects[diagnostics[at]].runId = runsToRemove[n]
          THEN spliceDiagnosticsForward(
                 SubSeq(diagnostics, 1, at - 1) \o SubSeq(diagnostics, at + 1, Len(diagnostics)),
                 objects, runsToRemove, i - 1,
                 Append(diagnosticsRemoved, diagnostics[at]))
          ELSE spliceDiagnosticsForward(diagnostics, objects, runsToRemove, i - 1,
                                        diagnosticsRemoved)

\* removeResults, the loop over one entry's diagnostics from its end
RECURSIVE spliceDiagnostics(_, _, _, _, _)
spliceDiagnostics(diagnostics, objects, runsToRemove, i, diagnosticsRemoved) ==
  IF i < 1 THEN [diagnostics |-> diagnostics, diagnosticsRemoved |-> diagnosticsRemoved]
  ELSE IF \E n \in 1..Len(runsToRemove) : objects[diagnostics[i]].runId = runsToRemove[n]
       THEN With(SubSeq(diagnostics, 1, i - 1) \o SubSeq(diagnostics, i + 1, Len(diagnostics)),
                 LAMBDA spliced :
            With(Append(diagnosticsRemoved, diagnostics[i]), LAMBDA pushed :
              spliceDiagnostics(spliced, objects, runsToRemove, i - 1, pushed)))
       ELSE spliceDiagnostics(diagnostics, objects, runsToRemove, i - 1, diagnosticsRemoved)

\* removeResults, the loop over the keys of the collection
RECURSIVE removeResultsLoop(_, _, _, _, _)
removeResultsLoop(collection, objects, runsToRemove, keys, diagnosticsRemoved) ==
  IF keys = <<>>
  THEN [collection |-> collection, diagnosticsRemoved |-> diagnosticsRemoved]
  ELSE LET key == Head(keys)
       IN With(spliceDiagnostics(MapGet(collection, key), objects, runsToRemove,
                                 Len(MapGet(collection, key)), diagnosticsRemoved),
               LAMBDA spliced :
          With(IF Len(spliced.diagnostics) = 0
               THEN MapDelete(collection, key)
               ELSE MapSet(collection, key, spliced.diagnostics),
               LAMBDA updated :
            removeResultsLoop(updated, objects, runsToRemove, Tail(keys),
                              spliced.diagnosticsRemoved)))

\* private removeResults(runsToRemove, collection)
removeResults(collection, objects, runsToRemove, events) ==
  With(removeResultsLoop(collection, objects, runsToRemove, MapKeys(collection), <<>>),
       LAMBDA done :
    [collection |-> done.collection,
     fired |-> IF Len(done.diagnosticsRemoved) > 0
               THEN Append(events, Event("Remove", done.diagnosticsRemoved))
               ELSE events])

removeRuns(c, path) ==
  With(spliceRuns(c.runs, path, Len(c.runs), <<>>), LAMBDA spliced :
  With(removeResults(c.mapped, c.heap, spliced.runsToRemove, c.fired), LAMBDA fromMapped :
  With(removeResults(c.unmapped, c.heap, spliced.runsToRemove, fromMapped.fired),
       LAMBDA fromUnmapped :
  With([c EXCEPT !.runs = spliced.runs,
                 !.mapped = fromMapped.collection,
                 !.unmapped = fromUnmapped.collection,
                 !.fired = fromUnmapped.fired], syncDiagnostics))))

\* mappingChanged, first loop: every issue of the mapped bucket, result ignored
RECURSIVE remapMapped(_, _, _)
remapMapped(objects, remapping, issues) ==
  IF issues = <<>> THEN objects
  ELSE With([objects EXCEPT ![Head(issues)] =
               tryToRemapLocations(remapping, objects[Head(issues)]).diagnostic],
            LAMBDA relocated : remapMapped(relocated, remapping, Tail(issues)))

\* Mutant of remapUnmappedIssues: a remapped issue is added to the mapped bucket
\* and kept among the remaining unmapped issues as well
RECURSIVE remapUnmappedIssuesKeep(_, _, _, _)
remapUnmappedIssuesKeep(c, remapping, unmappedIssues, remainingUnmappedIssues) ==
  IF unmappedIssues = <<>> THEN [c |-> c, remaining |-> remainingUnmappedIssues]
  ELSE LET unmappedIssue == Head(unmappedIssues)
           tried == tryToRemapLocations(remapping, c.heap[unmappedIssue])
           c1 == [c EXCEPT !.heap[unmappedIssue] = tried.diagnostic]
       IN remapUnmappedIssuesKeep(IF tried.remapped THEN add(c1, unmappedIssue) ELSE c1,
                                  remapping, Tail(unmappedIssues),
                                  Append(remainingUnmappedIssues, unmappedIssue))

\* mappingChanged, second loop, the issues of one entry of the unmapped bucket
RECURSIVE remapUnmappedIssues(_, _, _, _)
remapUnmappedIssues(c, remapping, unmappedIssues, remainingUnmappedIssues) ==
  IF unmappedIssues = <<>> THEN [c |-> c, remaining |-> remainingUnmappedIssues]
  ELSE LET unmappedIssue == Head(unmappedIssues)
       IN With(tryToRemapLocations(remapping, c.heap[unmappedIssue]), LAMBDA tried :
          With([c EXCEPT !.heap[unmappedIssue] = tried.diagnostic], LAMBDA c1 :
            IF tried.remapped
            THEN With(add(c1, unmappedIssue), LAMBDA added :
                   remapUnmappedIssues(added, remapping, Tail(unmappedIssues),
                                       remainingUnmappedIssues))
            ELSE With(Append(remainingUnmappedIssues, unmappedIssue), LAMBDA remaining :
                   remapUnmappedIssues(c1, remapping, Tail(unmappedIssues), remaining))))

\* mappingChanged, second loop, the entries of the unmapped bucket
RECURSIVE remapUnmapped(_, _, _)
remapUnmapped(c, remapping, keys) ==
  IF keys = <<>> THEN c
  ELSE LET key == Head(keys)
       IN With(remapUnmappedIssues(c, remapping, MapGet(c.unmapped, key), <<>>),
               LAMBDA done :
          With([done.c EXCEPT !.unmapped = IF Len(done.remaining) = 0
                                           THEN MapDelete(done.c.unmapped, key)
                                           ELSE MapSet(done.c.unmapped, key, done.remaining)],
               LAMBDA updated : remapUnmapped(updated, remapping, Tail(keys))))

\* mappingChanged(), run to completion
mappingChanged(c, remapping) ==
  With([c EXCEPT !.heap = remapMapped(c.heap, remapping, Flatten(c.mapped))], LAMBDA c1 :
  With(remapUnmapped(c1, remapping, MapKeys(c1.unmapped)), syncDiagnostics))

----------------------------------------------------------------------------
(* LogReader *)

\* RunInfoFactory.create: the fields of a RunInfo the collection reads
RunInfoCreate(sarifFileName) == [id |-> 0, sarifFileFullPath |-> sarifFileName]

\* the smallest reference of the heap that holds no diagnostic object
NewRef(objects) == CHOOSE r \in Refs \ DOMAIN objects : \A q \in Refs \ DOMAIN objects : r <= q

Allocate(objects, ref, diagnostic) ==
  [r \in DOMAIN objects \cup {ref} |-> IF r = ref THEN diagnostic ELSE objects[r]]

\* the body of the loop of readResults for the result at resultIndex (0-based)
readResult(c, remapping, runInfo, sarifResult, resultIndex) ==
  With(ResultInfoCreate(remapping, runInfo, sarifResult, resultIndex), LAMBDA resultInfo :
    LET located ==
          IF ~resultInfo.assignedLocation.defined \/ ~resultInfo.assignedLocation.mapped
          THEN [resultInfo EXCEPT
                  !.assignedLocation = mapToSarifFileLocation(runInfo.sarifFileFullPath)]
          ELSE resultInfo
    IN With(SVDiagnosticFactoryCreate(runInfo, located, sarifResult), LAMBDA created :
         IF created.thrown
         THEN [c |-> c, thrown |-> TRUE]
         ELSE LET ref == NewRef(c.heap)
              IN With([c EXCEPT !.heap = Allocate(c.heap, ref, created.diagnostic)],
                      LAMBDA allocated : [c |-> add(allocated, ref), thrown |-> FALSE])))

\* readResults(runInfo, results, ...), from the result at position i (1-based)
RECURSIVE readResults(_, _, _, _, _)
readResults(c, remapping, runInfo, results, i) ==
  IF i > Len(results) THEN [c |-> c, thrown |-> FALSE]
  ELSE With(readResult(c, remapping, runInfo, results[i], i - 1), LAMBDA one :
         IF one.thrown THEN one
         ELSE readResults(one.c, remapping, runInfo, results, i + 1))

\* the start of the loop body of read for one run: the run gets its id
registerRun(c, sarifFileName) ==
  With(addRunInfoAndCalculateId(c, RunInfoCreate(sarifFileName)), LAMBDA pushed :
    [pushed.c EXCEPT !.runs[Len(pushed.c.runs)].id = pushed.id])

\* the loop of read over the runs of the log, from the run at position i (1-based)
RECURSIVE readRuns(_, _, _, _, _)
readRuns(c, remapping, sarifFileName, log, i) ==
  IF i > Len(log) THEN [c |-> c, thrown |-> FALSE]
  ELSE With(registerRun(c, sarifFileName), LAMBDA registered :
       With(readResults(registered, remapping, registered.runs[Len(registered.runs)],
                        log[i], 1), LAMBDA loaded :
         IF loaded.thrown THEN loaded
         ELSE readRuns(loaded.c, remapping, sarifFileName, log, i + 1)))

\* read(doc, sync), run to completion; an Error thrown by a result ends it
read(c, remapping, sarifFileName, log, sync) ==
  With(readRuns(c, remapping, sarifFileName, log, 1), LAMBDA loaded :
    IF loaded.thrown \/ ~sync THEN loaded
    ELSE [c |-> syncDiagnostics(loaded.c), thrown |-> FALSE])

\* what makes a document unreadable: its text is not JSON, or its log has no $schema
ParseFaults == {"not JSON", "no $schema"}

\* Mutant of readUnreadable: the run is registered before the log is looked at
readUnreadableRegistered(c, sarifFileName, fault) ==
  [c |-> registerRun(c, sarifFileName), errorShown |-> TRUE]

\* read(doc, sync) of an unreadable document: the error message is shown and read
\* returns before the loop over the runs
readUnreadable(c, sarifFileName, fault) ==
  [c |-> c, errorShown |-> TRUE]

----------------------------------------------------------------------------
(* The extension as a state machine: every handler runs to completion *)

Cur ==
  [runs     |-> runInfoCollection,
   mapped   |-> mappedIssuesCollection,
   unmapped |-> unmappedIssuesCollection,
   display  |-> diagnosticCollection,
   heap     |-> heap,
   fired    |-> <<>>]

\* the diagnostic objects that a bucket still refers to
Stored(c) == SeqToSet(Flatten(c.mapped)) \cup SeqToSet(Flatten(c.unmapped))

Restrict(objects, keep) == [r \in DOMAIN objects \cap keep |-> objects[r]]

\* the handler leaves the collection in state c; unreferenced objects are collected
Commit(done) ==
  \E c \in {done} :
    /\ runInfoCollection' = c.runs
    /\ mappedIssuesCollection' = c.mapped
    /\ unmappedIssuesCollection' = c.unmapped
    /\ diagnosticCollection' = c.display
    /\ heap' = Restrict(c.heap, Stored(c))
    /\ fired' = c.fired

\* op: the handler; path: its document; thrown: an Error escaped it; issued: the
\* run ids addRunInfoAndCalculateId returned to it; representable: see below;
\* issue: the diagnostic object the call was given or returned, 0 for none
\* errorShown: window.showErrorMessage was called; input, output: the argument
\* and the result of a function that was called on its own
Call(op, path) ==
  [op |-> op, path |-> path, thrown |-> FALSE, issued |-> <<>>, representable |-> 0,
   issue |-> 0, errorShown |-> FALSE, input |-> <<>>, output |-> <<>>]

\* the results of a log that SVDiagnosticFactory.create can represent
RECURSIVE Representable(_)
Representable(log) ==
  IF log = <<>> THEN 0
  ELSE Cardinality({i \in 1..Len(Head(log)) : Head(log)[i].text # ""})
         + Representable(Tail(log))

\* no read of the document is suspended
Idle == [pc |-> "idle", log |-> <<>>, runIndex |-> 0, runId |-> 0 - 1, wait |-> "none"]

\* the id that addRunInfoAndCalculateId would give next
NextRunId(c) == addRunInfoAndCalculateId(c, RunInfoCreate("")).id

Init ==
  /\ runInfoCollection = <<>>
  /\ mappedIssuesCollection = <<>>
  /\ unmappedIssuesCollection = <<>>
  /\ diagnosticCollection = <<>>
  /\ heap = <<>>
  /\ fileRemapping = {}
  /\ openDocs = {}
  /\ fired = <<>>
  /\ lastCall = Call("constructor", "")
  /\ highestIssued = 0 - 1
  /\ reading = [doc \in Docs |-> Idle]
  /\ progress = FALSE
  /\ sarifJSONMapping = <<>>
  /\ remaps = <<>>
  /\ threadFlowLocationsMap = <<>>
  /\ scanState = [scanInProgress |-> FALSE, scanCliAvailable |-> FALSE,
                  deleting |-> <<>>, processes |-> <<>>, spawned |-> 0]

\* workspace.onDidOpenTextDocument -> LogReader.onDocumentOpened -> read(doc, true)
OpenDocument(doc, log) ==
  /\ UNCHANGED <<sarifJSONMapping, remaps, threadFlowLocationsMap, scanState>>
  /\ doc \notin openDocs
  /\ CountResults(log) <= MaxDiags - Cardinality(DOMAIN heap)
  /\ NextRunId(Cur) + Len(log) - 1 <= MaxRunId
  /\ openDocs' = openDocs \cup {doc}
  /\ \E done \in {read(Cur, fileRemapping, doc, log, TRUE)} :
       LET issued == [i \in 1..(Len(done.c.runs) - Len(runInfoCollection)) |->
                        done.c.runs[Len(runInfoCollection) + i].id]
       IN /\ Commit(done.c)
          /\ lastCall' = [Call("read", doc) EXCEPT !.thrown = done.thrown,
                                                   !.issued = issued,
                                                   !.representable = Representable(log)]
          /\ highestIssued' = Max({highestIssued} \cup SeqToSet(issued))
          \* Progress is set on entry and unset on the way out, which a throw skips
          /\ progress' = done.thrown
  /\ UNCHANGED <<fileRemapping, reading>>

\* onDocumentOpened for a document that cannot be parsed; Progress stays set
OpenUnreadable(doc, fault) ==
  /\ UNCHANGED <<sarifJSONMapping, remaps, threadFlowLocationsMap, scanState>>
  /\ doc \notin openDocs
  /\ openDocs' = openDocs \cup {doc}
  /\ \E done \in {readUnreadable(Cur, doc, fault)} :
       /\ Commit(done.c)
       /\ lastCall' = [Call("read", doc) EXCEPT !.errorShown = done.errorShown]
  /\ progress' = TRUE
  /\ UNCHANGED <<fileRemapping, highestIssued, reading>>

\* workspace.onDidCloseTextDocument -> onDocumentClosed -> removeRuns(doc.fileName)
CloseDocument(doc) ==
  /\ UNCHANGED <<sarifJSONMapping, remaps, threadFlowLocationsMap, scanState>>
  /\ doc \in openDocs
  /\ openDocs' = openDocs \ {doc}
  /\ Commit(removeRuns(Cur, doc))
  /\ lastCall' = Call("removeRuns", doc)
  /\ UNCHANGED <<fileRemapping, highestIssued>>
  /\ UNCHANGED <<reading, progress>>

\* the user maps an artifact to a local file: FileMapper fires onMappingChanged
UserMapsFile(artifact) ==
  /\ UNCHANGED <<sarifJSONMapping, remaps, threadFlowLocationsMap, scanState>>
  /\ artifact \notin fileRemapping
  /\ fileRemapping' = fileRemapping \cup {artifact}
  /\ Commit(mappingChanged(Cur, fileRemapping'))
  /\ lastCall' = Call("mappingChanged", "")
  /\ UNCHANGED <<openDocs, highestIssued>>
  /\ UNCHANGED <<reading, progress>>

\* a mapped artifact stops resolving; nothing is notified
FileLost(artifact) ==
  /\ UNCHANGED <<sarifJSONMapping, remaps, threadFlowLocationsMap, scanState>>
  /\ artifact \in fileRemapping
  /\ fileRemapping' = fileRemapping \ {artifact}
  /\ fired' = <<>>
  /\ lastCall' = Call("fileLost", "")
  /\ UNCHANGED <<runInfoCollection, mappedIssuesCollection, unmappedIssuesCollection,
                 diagnosticCollection, heap, openDocs, highestIssued>>
  /\ UNCHANGED <<reading, progress>>

\* ExplorerController: the webview is revealed again, or a scan is started
ClearAll ==
  /\ UNCHANGED <<sarifJSONMapping, remaps, threadFlowLocationsMap, scanState>>
  /\ Commit(clear(Cur))
  /\ lastCall' = Call("clear", "")
  /\ UNCHANGED <<fileRemapping, openDocs, highestIssued>>
  /\ UNCHANGED <<reading, progress>>

Next ==
  \/ \E doc \in Docs, log \in SarifLogs : OpenDocument(doc, log)
  \/ \E doc \in Docs, fault \in ParseFaults : OpenUnreadable(doc, fault)
  \/ \E doc \in Docs : CloseDocument(doc)
  \/ \E artifact \in Artifacts : UserMapsFile(artifact)
  \/ \E artifact \in Artifacts : FileLost(artifact)
  \/ ClearAll

Spec == Init /\ [][Next]_vars

----------------------------------------------------------------------------
(* The public functions called directly, as a client of the classes may:   *)
(* SVDiagnosticFactory.create and the SarifViewerVsCodeDiagnostic          *)
(* constructor make diagnostic objects the caller holds, and               *)
(* SVDiagnosticCollection.add files them.                                  *)

\* the diagnostic objects a caller may hold at once
MaxApiIssues == 3

\* an assigned location: absent, unresolved (LocationFactory.create keeps no uri),
\* in the SARIF document (mapToSarifFileLocation), or resolved
ApiLocations ==
  { NoLocation,
    LocationCreate({}, "f1.c"),
    mapToSarifFileLocation("/w/a.sarif"),
    LocationCreate({"f1.c"}, "f1.c") }

\* result.level: the four SARIF levels, one that is none of them, and none given
ApiLevels == {"error", "warning", "note", "none", "open", ""}

ApiResultInfo(location, level) ==
  [runId            |-> 0,
   id               |-> Cardinality(DOMAIN heap),
   sarifFile        |-> "/w/a.sarif",
   rawLocations     |-> <<"f1.c">>,
   locations        |-> IF location.defined THEN <<location>> ELSE <<>>,
   assignedLocation |-> location,
   text             |-> "msg",
   level            |-> level,
   severity         |-> DiagnosticSeverity.Error,
   message          |-> <<"msg">>]

CommitHeld(done) ==
  \E c \in {done} :
    /\ runInfoCollection' = c.runs
    /\ mappedIssuesCollection' = c.mapped
    /\ unmappedIssuesCollection' = c.unmapped
    /\ diagnosticCollection' = c.display
    /\ heap' = c.heap
    /\ fired' = c.fired

\* SVDiagnosticFactory.create(runInfo, resultInfo, rawResult)
ApiCreate(location, level) ==
  /\ UNCHANGED <<sarifJSONMapping, remaps, threadFlowLocationsMap, scanState>>
  /\ Cardinality(DOMAIN heap) < MaxApiIssues
  /\ LET made == SVDiagnosticFactoryCreate(RunInfoCreate("/w/a.sarif"),
                                           ApiResultInfo(location, level), level)
         ref  == NewRef(heap)
     IN /\ heap' = IF made.thrown THEN heap ELSE Allocate(heap, ref, made.diagnostic)
        /\ lastCall' = [Call("create", "") EXCEPT !.thrown = made.thrown,
                                                  !.issue = IF made.thrown THEN 0 ELSE ref]
  /\ fired' = <<>>
  /\ UNCHANGED <<runInfoCollection, mappedIssuesCollection, unmappedIssuesCollection,
                 diagnosticCollection, fileRemapping, openDocs, highestIssued>>
  /\ UNCHANGED <<reading, progress>>

\* new SarifViewerVsCodeDiagnostic(runInfo, resultInfo, rawResult, range) for a
\* result without an assigned location; the caller sets severity and message
ApiConstruct(level) ==
  /\ UNCHANGED <<sarifJSONMapping, remaps, threadFlowLocationsMap, scanState>>
  /\ Cardinality(DOMAIN heap) < MaxApiIssues
  /\ LET resultInfo == ApiResultInfo(NoLocation, level)
         svDiagnostic == [resultInfo EXCEPT !.severity = getSeverity(level)]
         ref == NewRef(heap)
     IN /\ heap' = Allocate(heap, ref,
                       [svDiagnostic EXCEPT !.message = updateMessage(svDiagnostic)])
        /\ lastCall' = [Call("construct", "") EXCEPT !.issue = ref]
  /\ fired' = <<>>
  /\ UNCHANGED <<runInfoCollection, mappedIssuesCollection, unmappedIssuesCollection,
                 diagnosticCollection, fileRemapping, openDocs, highestIssued>>
  /\ UNCHANGED <<reading, progress>>

\* SVDiagnosticCollection.add(issue) for a diagnostic not added before
ApiAdd(issue) ==
  /\ UNCHANGED <<sarifJSONMapping, remaps, threadFlowLocationsMap, scanState>>
  /\ issue \in DOMAIN heap
  /\ issue \notin Stored(Cur)
  /\ \A i \in 1..Len(fired) : issue \notin SeqToSet(fired[i].diagnostics)
  /\ CommitHeld(add(Cur, issue))
  /\ lastCall' = [Call("add", "") EXCEPT !.issue = issue]
  /\ UNCHANGED <<fileRemapping, openDocs, highestIssued>>
  /\ UNCHANGED <<reading, progress>>

\* SVDiagnosticCollection.clear(); the caller lets go of its diagnostics
ApiClear ==
  /\ UNCHANGED <<sarifJSONMapping, remaps, threadFlowLocationsMap, scanState>>
  /\ heap # <<>>
  /\ Commit(clear(Cur))
  /\ lastCall' = Call("clear", "")
  /\ UNCHANGED <<fileRemapping, openDocs, highestIssued>>
  /\ UNCHANGED <<reading, progress>>

NextApi ==
  \/ \E location \in ApiLocations, level \in ApiLevels : ApiCreate(location, level)
  \/ \E level \in ApiLevels : ApiConstruct(level)
  \/ \E issue \in Refs : ApiAdd(issue)
  \/ ApiClear

SpecApi == Init /\ [][NextApi]_vars

----------------------------------------------------------------------------
(* The extension with LogReader.read suspended at its awaits.  A read that *)
(* awaits ProgressHelper.setProgressReport while Progress is set waits for *)
(* a 100 ms timer, and any other handler may run meanwhile; while Progress *)
(* is unset the await resumes before any other handler ("micro").          *)

AsyncLogs ==
  { <<<<Nowhere>>, <<InFile1>>>>,
    <<<<InFile1, NoText>>, <<InFile2>>>> }

RECURSIVE CountFrom(_, _)
CountFrom(log, i) == IF i > Len(log) THEN 0 ELSE Len(log[i]) + CountFrom(log, i + 1)

\* results and runs that the suspended reads have still to add
PendingResults ==
  LET F[S \in SUBSET Docs] ==
        IF S = {} THEN 0
        ELSE LET doc == CHOOSE d \in S : TRUE
             IN (IF reading[doc].pc = "idle" THEN 0
                 ELSE CountFrom(reading[doc].log, Max({1, reading[doc].runIndex})))
                + F[S \ {doc}]
  IN F[Docs]
PendingRuns ==
  LET F[S \in SUBSET Docs] ==
        IF S = {} THEN 0
        ELSE LET doc == CHOOSE d \in S : TRUE
             IN (IF reading[doc].pc = "idle" THEN 0
                 ELSE Len(reading[doc].log) - reading[doc].runIndex)
                + F[S \ {doc}]
  IN F[Docs]

\* no read is about to resume ahead of every other handler
MacroTask == \A doc \in Docs : reading[doc].wait # "micro"

Wait == IF progress THEN "timer" ELSE "micro"

\* read(doc, true) up to await setProgressReport("Parsing Sarif file")
BeginRead(doc, log) ==
  /\ UNCHANGED <<sarifJSONMapping, remaps, threadFlowLocationsMap, scanState>>
  /\ MacroTask
  /\ doc \notin openDocs
  /\ reading[doc].pc = "idle"
  /\ CountResults(log) + PendingResults <= MaxDiags - Cardinality(DOMAIN heap)
  /\ NextRunId(Cur) + PendingRuns + Len(log) - 1 <= MaxRunId
  /\ openDocs' = openDocs \cup {doc}
  /\ progress' = TRUE
  /\ reading' = [reading EXCEPT ![doc] =
                   [pc |-> "parsing", log |-> log, runIndex |-> 0, runId |-> 0 - 1,
                    wait |-> "timer"]]
  /\ fired' = <<>>
  /\ lastCall' = Call("read.begin", doc)
  /\ UNCHANGED <<runInfoCollection, mappedIssuesCollection, unmappedIssuesCollection,
                 diagnosticCollection, heap, fileRemapping, highestIssued>>

\* read from the run at position i: the run gets its id and read awaits
\* setProgressReport("Loading n Results"); past the last run it synchronizes
ContinueRead(c, doc, i) ==
  IF i > Len(reading[doc].log)
  THEN /\ Commit(syncDiagnostics(c))
       /\ progress' = FALSE
       /\ reading' = [reading EXCEPT ![doc] = Idle]
       /\ lastCall' = Call("read", doc)
       /\ UNCHANGED highestIssued
  ELSE \E registered \in {registerRun(c, doc)} :
         LET id == registered.runs[Len(registered.runs)].id
         IN /\ Commit(registered)
            /\ reading' = [reading EXCEPT ![doc] =
                             [@ EXCEPT !.pc = "loading", !.runIndex = i, !.runId = id,
                                       !.wait = Wait]]
            /\ lastCall' = [Call("read.run", doc) EXCEPT !.issued = <<id>>]
            /\ highestIssued' = Max({highestIssued, id})
            /\ UNCHANGED progress

\* a suspended read resumes and runs to its next await, to its end or to a throw
ResumeRead(doc) ==
  /\ UNCHANGED <<sarifJSONMapping, remaps, threadFlowLocationsMap, scanState>>
  /\ reading[doc].pc # "idle"
  /\ reading[doc].wait = "timer" => MacroTask
  /\ UNCHANGED <<fileRemapping, openDocs>>
  /\ IF reading[doc].pc = "parsing"
     THEN ContinueRead(Cur, doc, 1)
     ELSE \E loaded \in {readResults(Cur, fileRemapping,
                                     [id |-> reading[doc].runId, sarifFileFullPath |-> doc],
                                     reading[doc].log[reading[doc].runIndex], 1)} :
            IF loaded.thrown
            THEN /\ Commit(loaded.c)
                 /\ reading' = [reading EXCEPT ![doc] = Idle]
                 /\ lastCall' = [Call("read", doc) EXCEPT !.thrown = TRUE]
                 /\ UNCHANGED <<highestIssued, progress>>
            ELSE ContinueRead(loaded.c, doc, reading[doc].runIndex + 1)

\* the handlers that start from an event of the editor.  Bound: a document is
\* closed when no read of it is suspended, and the collection is cleared when no
\* read is suspended, so that no read adds diagnostics of a run already removed.
Handler ==
  /\ MacroTask
  /\ \/ \E doc \in Docs : reading[doc].pc = "idle" /\ CloseDocument(doc)
     \/ \E artifact \in Artifacts : UserMapsFile(artifact)
     \/ \E artifact \in Artifacts : FileLost(artifact)
     \/ (\A doc \in Docs : reading[doc].pc = "idle") /\ ClearAll

NextAsync ==
  \/ \E doc \in Docs, log \in AsyncLogs : BeginRead(doc, log)
  \/ \E doc \in Docs : ResumeRead(doc)
  \/ Handler

SpecAsync == Init /\ [][NextAsync]_vars

\* the same with no bound on the handlers: a document is closed and the
\* collection is cleared also while a read is suspended
InterruptLogs == { <<<<InFile1>>>> }

BeginInterruptedRead(doc, log) ==
  /\ CountResults(log) + PendingResults <= MaxSuspendedDiags - Cardinality(DOMAIN heap)
  /\ NextRunId(Cur) + PendingRuns + Len(log) - 1 <= MaxSuspendedRunId
  /\ BeginRead(doc, log)

Interrupt ==
  /\ MacroTask
  /\ \/ \E doc \in Docs : CloseDocument(doc)
     \/ ClearAll

NextInterrupt ==
  \/ \E doc \in Docs, log \in InterruptLogs : BeginInterruptedRead(doc, log)
  \/ \E doc \in Docs : ResumeRead(doc)
  \/ Interrupt

SpecInterrupt == Init /\ [][NextInterrupt]_vars

----------------------------------------------------------------------------
(* mappingChanged suspended at its awaits.  Every await of                 *)
(* tryToRemapLocations is a point where the invocation waits for the file  *)
(* mapper while other handlers run: documents are read and closed, and the *)
(* user maps another file, which starts another invocation.  An invocation *)
(* is the record of its locals: loop (which bucket it walks), visited (the *)
(* keys its Map iterator has passed), key (the entry it is in), live       *)
(* (the array it walks is still the one stored under key; held is the      *)
(* array otherwise), at (the index its array iterator stands at), issue    *)
(* (the diagnostic whose tryToRemapLocations is awaited) and remaining     *)
(* (remainingUnmappedIssues).                                              *)

\* how many invocations of mappingChanged are suspended at once
MaxRemaps == 2

\* the log each document holds
RemapLog(doc) == IF doc = "/w/a.sarif" THEN << <<InFile2>> >> ELSE << <<InFile1>> >>

Bucket(c, loop) == IF loop = "mapped" THEN c.mapped ELSE c.unmapped

\* the array an invocation walks
Walked(c, invocation) ==
  IF invocation.live THEN MapGet(Bucket(c, invocation.loop), invocation.key)
  ELSE invocation.held

\* the diagnostic objects the invocations still refer to
HeldBy(invocations) ==
  UNION {{invocations[i].issue} \cup SeqToSet(invocations[i].held)
           \cup SeqToSet(invocations[i].remaining) : i \in DOMAIN invocations}

\* the keys of a Map that its iterator has not passed, in the order of the Map
Ahead(bucket, visited) == SelectSeq(MapKeys(bucket), LAMBDA key : key \notin visited)

\* the invocation as it waits for the first issue of the entry at key
Entering(c, loop, visited, key) ==
  [loop |-> loop, visited |-> visited, key |-> key, live |-> TRUE, held |-> <<>>,
   at |-> 1, issue |-> MapGet(Bucket(c, loop), key)[1], remaining |-> <<>>]

\* the invocation moves to the next entry of the Map it walks, goes over to the
\* second loop after the first, and calls syncDiagnostics after the second
NextEntry(c, loop, visited) ==
  IF Ahead(Bucket(c, loop), visited) # <<>>
  THEN [c |-> c, finished |-> FALSE,
        invocation |-> Entering(c, loop, visited, Ahead(Bucket(c, loop), visited)[1])]
  ELSE IF loop = "mapped" /\ c.unmapped # <<>>
  THEN [c |-> c, finished |-> FALSE,
        invocation |-> Entering(c, "unmapped", {}, MapKeys(c.unmapped)[1])]
  ELSE [c |-> syncDiagnostics(c), finished |-> TRUE, invocation |-> <<>>]

\* after the awaited issue: the next issue of the array, or the end of the
\* array, where the second loop stores remainingUnmappedIssues under the key
Advance(c, invocation) ==
  IF invocation.at + 1 <= Len(Walked(c, invocation))
  THEN [c |-> c, finished |-> FALSE,
        invocation |-> [invocation EXCEPT !.at = invocation.at + 1,
                                          !.issue = Walked(c, invocation)[invocation.at + 1]]]
  ELSE IF invocation.loop = "mapped"
  THEN NextEntry(c, "mapped", invocation.visited \cup {invocation.key})
  ELSE With([c EXCEPT !.unmapped = IF Len(invocation.remaining) = 0
                                   THEN MapDelete(c.unmapped, invocation.key)
                                   ELSE MapSet(c.unmapped, invocation.key,
                                               invocation.remaining)],
            LAMBDA stored :
         NextEntry(stored, "unmapped",
                   IF MapHas(c.unmapped, invocation.key)
                   THEN invocation.visited \cup {invocation.key}
                   ELSE invocation.visited))

\* the awaited tryToRemapLocations returns and the body of the loop goes on
Resumed(c, remapping, invocation) ==
  With(tryToRemapLocations(remapping, c.heap[invocation.issue]), LAMBDA tried :
  With([c EXCEPT !.heap[invocation.issue] = tried.diagnostic], LAMBDA c1 :
    IF invocation.loop = "mapped"
    THEN Advance(c1, invocation)
    ELSE IF tried.remapped
    THEN With(add(c1, invocation.issue), LAMBDA added : Advance(added, invocation))
    ELSE Advance(c1, [invocation EXCEPT
                        !.remaining = Append(invocation.remaining, invocation.issue)])))

\* what another handler's change of the buckets means to a waiting invocation:
\* a key that left the Map is no longer one its iterator has passed, and an
\* array that is no longer stored under its key is walked as it was left
\* (emptied, when removeResults took its last element out)
Observing(invocation, before, after, emptied) ==
  LET bucketBefore == Bucket(before, invocation.loop)
      bucketAfter == Bucket(after, invocation.loop)
      kept == /\ MapHas(bucketAfter, invocation.key)
              /\ (emptied \/ MapGet(bucketAfter, invocation.key)
                             = MapGet(bucketBefore, invocation.key))
  IN [invocation EXCEPT
        !.visited = {key \in invocation.visited : MapHas(bucketAfter, key)},
        !.live = invocation.live /\ kept,
        !.held = IF invocation.live /\ ~kept
                 THEN (IF emptied THEN <<>> ELSE MapGet(bucketBefore, invocation.key))
                 ELSE invocation.held]

\* the handler leaves the collection in state c; the objects the buckets and
\* the waiting invocations refer to are kept
CommitWaiting(done, invocations) ==
  \E c \in {done} :
    /\ runInfoCollection' = c.runs
    /\ mappedIssuesCollection' = c.mapped
    /\ unmappedIssuesCollection' = c.unmapped
    /\ diagnosticCollection' = c.display
    /\ heap' = Restrict(c.heap, Stored(c) \cup HeldBy(invocations))
    /\ fired' = c.fired
    /\ remaps' = invocations

RemapFrame == UNCHANGED <<reading, progress, sarifJSONMapping, threadFlowLocationsMap, scanState>>

\* read(doc, true) while invocations of mappingChanged wait
ReadWhileRemapping(doc) ==
  /\ doc \notin openDocs
  /\ CountResults(RemapLog(doc)) <= MaxSuspendedDiags - Cardinality(DOMAIN heap)
  /\ NextRunId(Cur) + Len(RemapLog(doc)) - 1 <= MaxSuspendedRunId
  /\ openDocs' = openDocs \cup {doc}
  /\ \E done \in {read(Cur, fileRemapping, doc, RemapLog(doc), TRUE)} :
       LET issued == [i \in 1..(Len(done.c.runs) - Len(runInfoCollection)) |->
                        done.c.runs[Len(runInfoCollection) + i].id]
       IN /\ CommitWaiting(done.c, remaps)
          /\ lastCall' = [Call("read", doc) EXCEPT !.issued = issued]
          /\ highestIssued' = Max({highestIssued} \cup SeqToSet(issued))
  /\ UNCHANGED fileRemapping
  /\ RemapFrame

\* removeRuns(doc.fileName) while invocations of mappingChanged wait
CloseWhileRemapping(doc) ==
  /\ doc \in openDocs
  /\ openDocs' = openDocs \ {doc}
  /\ \E done \in {removeRuns(Cur, doc)} :
       CommitWaiting(done, [i \in DOMAIN remaps |-> Observing(remaps[i], Cur, done, TRUE)])
  /\ lastCall' = Call("removeRuns", doc)
  /\ UNCHANGED <<fileRemapping, highestIssued>>
  /\ RemapFrame

\* the user maps an artifact: mappingChanged() runs up to its first await
BeginMappingChanged(artifact) ==
  /\ artifact \notin fileRemapping
  /\ Len(remaps) < MaxRemaps
  /\ fileRemapping' = fileRemapping \cup {artifact}
  /\ \E begun \in {NextEntry(Cur, "mapped", {})} :
       CommitWaiting(begun.c, IF begun.finished THEN remaps
                              ELSE Append(remaps, begun.invocation))
  /\ lastCall' = Call("mappingChanged", "")
  /\ UNCHANGED <<openDocs, highestIssued>>
  /\ RemapFrame

\* the await of the i-th waiting invocation returns: it runs up to its next
\* await, or to its end
ResumeMappingChanged(i) ==
  /\ i \in DOMAIN remaps
  /\ \E resumed \in {Resumed(Cur, fileRemapping, remaps[i])} :
       CommitWaiting(resumed.c,
         LET others == [j \in DOMAIN remaps |->
                          IF j = i THEN resumed.invocation
                          ELSE Observing(remaps[j], Cur, resumed.c, FALSE)]
         IN IF resumed.finished
            THEN SubSeq(others, 1, i - 1) \o SubSeq(others, i + 1, Len(others))
            ELSE others)
  /\ lastCall' = Call("mappingChanged resumed", "")
  /\ UNCHANGED <<fileRemapping, openDocs, highestIssued>>
  /\ RemapFrame

NextRemap ==
  \/ \E doc \in Docs : ReadWhileRemapping(doc)
  \/ \E doc \in Docs : CloseWhileRemapping(doc)
  \/ \E artifact \in Artifacts : BeginMappingChanged(artifact)
  \/ \E i \in 1..MaxRemaps : ResumeMappingChanged(i)

SpecRemap == Init /\ [][NextRemap]_vars

----------------------------------------------------------------------------
(* Functions called on their own.  lastCall holds the call: op, input and  *)
(* output.  LocationFactory's functions work on sarifJSONMapping, the      *)
(* pointer tables made when a document is parsed.                          *)

\* the variables of the extension that no function called on its own touches
FnFrame ==
  UNCHANGED <<runInfoCollection, mappedIssuesCollection, unmappedIssuesCollection,
              diagnosticCollection, heap, fileRemapping, openDocs, fired,
              highestIssued, reading, progress, remaps, threadFlowLocationsMap,
              scanState>>

\* new vscode.Range(startLine, startCharacter, endLine, endCharacter): the two
\* positions, swapped when the start is after the end
NewRange(startLine, startCharacter, endLine, endCharacter) ==
  LET start == [line |-> startLine, character |-> startCharacter]
      end   == [line |-> endLine, character |-> endCharacter]
  IN IF endLine < startLine \/ (endLine = startLine /\ endCharacter < startCharacter)
     THEN [start |-> end, end |-> start]
     ELSE [start |-> start, end |-> end]

\* the data tree of the sample document: a run of three results (one with
\* locations[0].physicalLocation, one with analysisTarget only, one with neither)
\* and a run without results
SarifData ==
  [runs |-> << [hasResults |-> TRUE,
                results |-> <<"physicalLocation", "analysisTarget", "bare">>],
               [hasResults |-> FALSE, results |-> <<>>] >>]

\* "/runs/" + runIndex + "/results/" + resultIndex
ResultPath(runIndex, resultIndex) == <<"/runs/", runIndex, "/results/", resultIndex>>

\* the path mapToSarifFileLocation looks up for a result
LocationPath(runIndex, resultIndex, result) ==
  IF result = "physicalLocation"
  THEN Append(ResultPath(runIndex, resultIndex), "/locations/0/physicalLocation")
  ELSE IF result = "analysisTarget"
       THEN Append(ResultPath(runIndex, resultIndex), "/analysisTarget")
       ELSE ResultPath(runIndex, resultIndex)

\* json-source-map's pointers for the sample document: the result with index j
\* spans ten lines from line 10 j + 2, its inner values lie within it
Pointers ==
  LET results == SarifData.runs[1].results
      ofResult == {ResultPath(0, j) : j \in 0..(Len(results) - 1)}
      inResult == {LocationPath(0, j, results[j + 1]) : j \in 0..(Len(results) - 1)}
  IN [path \in ofResult \cup inResult |->
        IF Len(path) = 4
        THEN [value    |-> [line |-> 10 * path[4] + 2, column |-> 6],
              valueEnd |-> [line |-> 10 * path[4] + 9, column |-> 7]]
        ELSE [value    |-> [line |-> 10 * path[4] + 4, column |-> 10],
              valueEnd |-> [line |-> 10 * path[4] + 7, column |-> 11]]]

\* jsonMap.parse(doc.getText())
JsonParse == [data |-> SarifData, pointers |-> Pointers]

NoResult == [defined |-> FALSE]

\* LocationFactory.createLocationOfMapping; mapping is the table it leaves behind
createLocationOfMapping(mapping, sarifUri, resultPath, insertionPtr) ==
  IF sarifUri \notin DOMAIN mapping
  THEN [mapping |-> mapping, location |-> NoResult]
  ELSE With(IF insertionPtr
            THEN [mapping EXCEPT ![sarifUri].pointers[resultPath].valueEnd =
                                   mapping[sarifUri].pointers[resultPath].value]
            ELSE mapping,
            LAMBDA after :
         LET locationMapping == after[sarifUri].pointers[resultPath]
         IN [mapping  |-> after,
             location |-> [defined   |-> TRUE,
                           endOfLine |-> FALSE,
                           fileName  |-> sarifUri,
                           mapped    |-> FALSE,
                           range     |-> NewRange(locationMapping.value.line,
                                                  locationMapping.value.column,
                                                  locationMapping.valueEnd.line,
                                                  locationMapping.valueEnd.column),
                           uri       |-> FileUri(<<sarifUri>>)]])

\* LocationFactory.mapToSarifFileResult
mapToSarifFileResult(mapping, sarifUri, runIndex, resultIndex) ==
  createLocationOfMapping(mapping, sarifUri, ResultPath(runIndex, resultIndex), TRUE)

\* LocationFactory.mapToSarifFileLocation with the range of the Location
mapToSarifFileLocationOf(mapping, sarifUri, runIndex, resultIndex) ==
  IF sarifUri \notin DOMAIN mapping
  THEN [mapping |-> mapping, location |-> NoResult]
  ELSE LET sarifLog == mapping[sarifUri].data
       IN IF runIndex >= Len(sarifLog.runs)
          THEN [mapping |-> mapping, location |-> NoResult]
          ELSE LET sarifRun == sarifLog.runs[runIndex + 1]
               IN IF ~sarifRun.hasResults
                  THEN [mapping |-> mapping, location |-> NoResult]
                  ELSE createLocationOfMapping(
                         mapping, sarifUri,
                         LocationPath(runIndex, resultIndex,
                                      sarifRun.results[resultIndex + 1]),
                         FALSE)

\* the indexes of the results of a run of the sample document
ResultIndexes(runIndex) ==
  IF runIndex < Len(SarifData.runs)
  THEN 0..(Len(SarifData.runs[runIndex + 1].results) - 1)
  ELSE {}

\* LogReader.read: sarifJSONMapping.set(doc.uri.toString(), docMapping)
ParseDocument(doc) ==
  /\ sarifJSONMapping' = [u \in DOMAIN sarifJSONMapping \cup {doc} |->
                            IF u = doc THEN JsonParse ELSE sarifJSONMapping[u]]
  /\ lastCall' = Call("jsonMap.parse", doc)
  /\ FnFrame

CallMapToSarifFileResult(doc, runIndex, resultIndex) ==
  /\ resultIndex \in ResultIndexes(runIndex)
  /\ \E done \in {mapToSarifFileResult(sarifJSONMapping, doc, runIndex, resultIndex)} :
       /\ sarifJSONMapping' = done.mapping
       /\ lastCall' = [Call("mapToSarifFileResult", doc) EXCEPT
                         !.input = <<runIndex, resultIndex>>, !.output = done.location]
  /\ FnFrame

CallMapToSarifFileLocation(doc, runIndex, resultIndex) ==
  /\ runIndex < Len(SarifData.runs) /\ SarifData.runs[runIndex + 1].hasResults
       => resultIndex \in ResultIndexes(runIndex)
  /\ \E done \in {mapToSarifFileLocationOf(sarifJSONMapping, doc, runIndex, resultIndex)} :
       /\ sarifJSONMapping' = done.mapping
       /\ lastCall' = [Call("mapToSarifFileLocation", doc) EXCEPT
                         !.input = <<runIndex, resultIndex>>, !.output = done.location]
  /\ FnFrame

CallCreateLocationOfMapping(doc, resultPath, insertionPtr) ==
  /\ \E done \in {createLocationOfMapping(sarifJSONMapping, doc, resultPath, insertionPtr)} :
       /\ sarifJSONMapping' = done.mapping
       /\ lastCall' = [Call("createLocationOfMapping", doc) EXCEPT
                         !.input = <<resultPath, insertionPtr>>, !.output = done.location]
  /\ FnFrame

NextLocation ==
  \/ \E doc \in Docs : ParseDocument(doc)
  \/ \E doc \in Docs, runIndex \in 0..2, resultIndex \in 0..2 :
       CallMapToSarifFileResult(doc, runIndex, resultIndex)
  \/ \E doc \in Docs, runIndex \in 0..2, resultIndex \in 0..2 :
       CallMapToSarifFileLocation(doc, runIndex, resultIndex)
  \/ \E doc \in Docs, resultPath \in DOMAIN Pointers, insertionPtr \in BOOLEAN :
       CallCreateLocationOfMapping(doc, resultPath, insertionPtr)

SpecLocation == Init /\ [][NextLocation]_vars

----------------------------------------------------------------------------
(* Pure functions called on their own: lastCall.input is the argument and  *)
(* lastCall.output the value returned.  An optional property of a SARIF    *)
(* object is a field that is in the DOMAIN of the record or not; a string  *)
(* is the sequence of its characters.                                      *)

Has(object, property) == property \in DOMAIN object

\* the base64 alphabet; a digit's value is its index minus one
Base64Alphabet ==
  <<"A","B","C","D","E","F","G","H","I","J","K","L","M","N","O","P","Q","R","S","T",
    "U","V","W","X","Y","Z","a","b","c","d","e","f","g","h","i","j","k","l","m","n",
    "o","p","q","r","s","t","u","v","w","x","y","z","0","1","2","3","4","5","6","7",
    "8","9","+","/">>

Base64Value(digit) == (CHOOSE i \in DOMAIN Base64Alphabet : Base64Alphabet[i] = digit) - 1

\* Buffer.from(binary, "base64"): the bytes of the digits before the padding
RECURSIVE Base64Bytes(_)
Base64Bytes(digits) ==
  IF Len(digits) < 2 THEN <<>>
  ELSE LET a == digits[1]
           b == digits[2]
           first == <<a * 4 + (b \div 16)>>
       IN IF Len(digits) = 2 THEN first
          ELSE LET c == digits[3]
                   second == <<(b % 16) * 16 + (c \div 4)>>
               IN IF Len(digits) = 3 THEN first \o second
                  ELSE first \o second \o <<(c % 4) * 64 + digits[4]>>
                       \o Base64Bytes(SubSeq(digits, 5, Len(digits)))

BufferFromBase64(binary) ==
  Base64Bytes([i \in 1..Len(SelectSeq(binary, LAMBDA ch : ch # "=")) |->
                 Base64Value(SelectSeq(binary, LAMBDA ch : ch # "=")[i])])

IsContinuation(bytes, i) == i <= Len(bytes) /\ bytes[i] \in 128..191

\* Buffer.toString().length: the UTF-16 length of the bytes decoded as UTF-8
\* (a byte outside a well-formed sequence decodes to one replacement character)
RECURSIVE Utf8Length(_)
Utf8Length(bytes) ==
  IF bytes = <<>> THEN 0
  ELSE LET lead == bytes[1]
           rest(n) == SubSeq(bytes, n + 1, Len(bytes))
       IN IF lead \in 194..223 /\ IsContinuation(bytes, 2)
          THEN 1 + Utf8Length(rest(2))
          ELSE IF lead \in 224..239 /\ IsContinuation(bytes, 2) /\ IsContinuation(bytes, 3)
          THEN 1 + Utf8Length(rest(3))
          ELSE IF /\ lead \in 240..244 /\ IsContinuation(bytes, 2)
                  /\ IsContinuation(bytes, 3) /\ IsContinuation(bytes, 4)
          THEN 2 + Utf8Length(rest(4))
          ELSE 1 + Utf8Length(rest(1))

parseRangeOneBased(region) ==
  IF Has(region, "startLine")
  THEN [range |-> NewRange(region.startLine - 1,
                           IF Has(region, "startColumn") THEN region.startColumn - 1 ELSE 0,
                           IF Has(region, "endLine") THEN region.endLine - 1
                           ELSE region.startLine - 1,
                           IF Has(region, "endColumn") THEN region.endColumn ELSE 1),
        endOfLine |-> FALSE]
  ELSE [range |-> NewRange(0, 0, 0, 1), endOfLine |-> FALSE]

\* LocationFactory.parseRange of a defined region
parseRange(region) ==
  IF Has(region, "startLine")
  THEN LET startline == region.startLine - 1
           startcol  == IF Has(region, "startColumn") THEN region.startColumn - 1 ELSE 0
           endline   == IF Has(region, "endLine") THEN region.endLine - 1 ELSE startline
       IN IF Has(region, "endColumn")
          THEN [range |-> NewRange(startline, startcol, endline, region.endColumn - 1),
                endOfLine |-> FALSE]
          ELSE IF Has(region, "snippet")
          THEN LET endcol == IF Has(region.snippet, "text")
                             THEN Len(region.snippet.text) - 2
                             ELSE IF Has(region.snippet, "binary")
                                  THEN Utf8Length(BufferFromBase64(region.snippet.binary))
                                  ELSE 1
               IN [range |-> NewRange(startline, startcol, endline, endcol),
                   endOfLine |-> FALSE]
          ELSE [range |-> NewRange(startline, startcol, endline + 1, 0),
                endOfLine |-> TRUE]
  ELSE IF Has(region, "charOffset")
  THEN LET startcol == region.charOffset
           endcol   == IF Has(region, "charLength")
                       THEN region.charLength + region.charOffset
                       ELSE startcol
       IN [range |-> NewRange(0, startcol, 0, endcol), endOfLine |-> FALSE]
  ELSE [range |-> NewRange(0, 0, 0, 1), endOfLine |-> FALSE]

\* line and column numbers of the regions tried (1-based)
Lines == {5, 6}

Columns == {3, 10}

\* every record over some of the given properties, each with a value of its set
RecordsOver(values) ==
  UNION {{object \in [chosen -> UNION {values[p] : p \in chosen}] :
            \A p \in chosen : object[p] \in values[p]} : chosen \in SUBSET DOMAIN values}

\* snippets: no text and no binary, text only ("", "ab", "hello"), binary only
\* ("YWI=" is "ab", "w6k=" is the two bytes of U+00E9), and both
Snippets ==
  LET texts == {<<>>, <<"a", "b">>, <<"h", "e", "l", "l", "o">>}
      binaries == {<<"Y", "W", "I", "=">>, <<"w", "6", "k", "=">>}
  IN {<<>>} \cup {[text |-> t] : t \in texts} \cup {[binary |-> b] : b \in binaries}
     \cup {[text |-> <<"a", "b">>, binary |-> <<"w", "6", "k", "=">>]}

Extend(object, property, value) ==
  [p \in DOMAIN object \cup {property} |-> IF p = property THEN value ELSE object[p]]

Regions ==
  LET lineBased == RecordsOver([startLine |-> Lines, startColumn |-> Columns,
                                endLine |-> Lines, endColumn |-> Columns])
      offsetBased == RecordsOver([charOffset |-> {0, 4}, charLength |-> {0, 4}])
      plain == lineBased \cup offsetBased
  IN plain \cup {Extend(region, "snippet", snippet) : region \in plain, snippet \in Snippets}

CallParseRange(region) ==
  /\ lastCall' = [Call("parseRange", "") EXCEPT
                    !.input = region, !.output = parseRange(region)]
  /\ UNCHANGED sarifJSONMapping
  /\ FnFrame

\* the deepest nesting of calls tried before the engine gives up with a RangeError
MaxCallStack == 5

\* Utilities.joinPath
joinPath(start, end) ==
  LET joined == IF start # <<>> /\ start[Len(start)] # "/"
                THEN Append(start, "/")
                ELSE start
  IN IF end # <<>> /\ end[1] = "/"
     THEN joined \o SubSeq(end, 2, Len(end))
     ELSE joined \o end

\* artifactLocation.uri is truthy: given and not the empty string
GivenUri(artifactLocation) == Has(artifactLocation, "uri") /\ artifactLocation.uri # <<>>

\* artifactLocation.uriBaseId is truthy: given (the ids tried are not empty)
GivenUriBaseId(artifactLocation) == Has(artifactLocation, "uriBaseId")

\* the characters of an id (the ids tried are one character long)
Characters(id) == <<id>>

\* Utilities.expandBaseId, depth calls deep: the string returned, or the error thrown
RECURSIVE expandBaseId(_, _, _)
expandBaseId(id, baseIds, depth) ==
  IF depth > MaxCallStack
  THEN [thrown |-> TRUE, error |-> "RangeError", value |-> <<>>]
  ELSE With(IF id \in DOMAIN baseIds /\ GivenUriBaseId(baseIds[id])
            THEN expandBaseId(baseIds[id].uriBaseId, baseIds, depth + 1)
            ELSE [thrown |-> FALSE, error |-> "", value |-> <<>>],
            LAMBDA base :
         IF base.thrown THEN base
         ELSE IF id \notin DOMAIN baseIds
         THEN [thrown |-> TRUE, error |-> "TypeError", value |-> <<>>]
         ELSE [thrown |-> FALSE, error |-> "",
               value |-> joinPath(base.value,
                                  IF GivenUri(baseIds[id]) THEN baseIds[id].uri
                                  ELSE Characters(id))])

expandBaseIdsOwnUriFirst(baseIds) ==
  IF ~baseIds.defined
  THEN [thrown |-> FALSE, error |-> "", defined |-> FALSE, value |-> <<>>]
  ELSE [thrown |-> FALSE, error |-> "", defined |-> TRUE,
        value |-> [id \in DOMAIN baseIds.value |->
                     LET own == IF GivenUri(baseIds.value[id]) THEN baseIds.value[id].uri
                                ELSE Characters(id)
                     IN IF GivenUriBaseId(baseIds.value[id])
                        THEN joinPath(own, Characters(baseIds.value[id].uriBaseId))
                        ELSE own]]

\* Utilities.expandBaseIds: the dictionary returned, undefined, or the error of
\* the first id whose expansion throws
expandBaseIds(baseIds) ==
  IF ~baseIds.defined
  THEN [thrown |-> FALSE, error |-> "", defined |-> FALSE, value |-> <<>>]
  ELSE With([id \in DOMAIN baseIds.value |-> expandBaseId(id, baseIds.value, 1)],
            LAMBDA expanded :
         IF \E id \in DOMAIN expanded : expanded[id].thrown
         THEN [thrown |-> TRUE,
               error |-> expanded[CHOOSE id \in DOMAIN expanded : expanded[id].thrown].error,
               defined |-> FALSE, value |-> <<>>]
         ELSE [thrown |-> FALSE, error |-> "", defined |-> TRUE,
               value |-> [id \in DOMAIN expanded |-> expanded[id].value]])

\* the uris tried: "", "x", "y/" and "/z"
Uris == {<<>>, <<"x">>, <<"y", "/">>, <<"/", "z">>}

\* artifact locations with or without a uri and with or without a uriBaseId
ArtifactLocations ==
  {<<>>} \cup {[uri |-> uri] : uri \in Uris}
  \cup {[uriBaseId |-> id] : id \in {"A", "B", "C"}}
  \cup {[uri |-> uri, uriBaseId |-> id] : uri \in Uris, id \in {"A", "B", "C"}}

\* originalUriBaseIds: absent, every dictionary over the ids A and B (C is then
\* an id that is not in the dictionary), the chains A -> B -> C, a cycle of the
\* three ids, and A under B with the uris "x" and "y"
BaseIdDictionaries ==
  LET small == UNION {[ids -> ArtifactLocations] : ids \in SUBSET {"A", "B"}}
      chains == {[A |-> [uri |-> a, uriBaseId |-> "B"], B |-> [uri |-> b, uriBaseId |-> "C"],
                  C |-> [uri |-> c]] : a \in Uris, b \in Uris, c \in Uris}
      cycle == [A |-> [uri |-> <<"x">>, uriBaseId |-> "B"], B |-> [uriBaseId |-> "C"],
                C |-> [uri |-> <<"/", "z">>, uriBaseId |-> "A"]]
      nested == [A |-> [uri |-> <<"x">>, uriBaseId |-> "B"], B |-> [uri |-> <<"y">>]]
  IN {[defined |-> FALSE, value |-> <<>>]}
     \cup {[defined |-> TRUE, value |-> d] : d \in small \cup chains \cup {cycle, nested}}

CallExpandBaseIds(baseIds) ==
  /\ \E done \in {expandBaseIds(baseIds)} :
       lastCall' = [Call("expandBaseIds", "") EXCEPT
                      !.input = baseIds, !.thrown = done.thrown,
                      !.output = [defined |-> done.defined, value |-> done.value,
                                  error |-> done.error]]
  /\ UNCHANGED sarifJSONMapping
  /\ FnFrame

\* the decimal digits
Digits == <<"0", "1", "2", "3", "4", "5", "6", "7", "8", "9">>

\* `${n}` for a number that is not negative: its decimal digits
RECURSIVE NumberToString(_)
NumberToString(n) ==
  IF n < 10 THEN <<Digits[n + 1]>> ELSE Append(NumberToString(n \div 10), Digits[(n % 10) + 1])

IsDigit(ch) == \E i \in DOMAIN Digits : Digits[i] = ch

DigitValue(ch) == (CHOOSE i \in DOMAIN Digits : Digits[i] = ch) - 1

\* the value of the longest run of digits at the start of the text, after the
\* digits already taken; any tells whether there was a digit at all
RECURSIVE LeadingDigits(_, _, _)
LeadingDigits(text, value, any) ==
  IF text # <<>> /\ IsDigit(text[1])
  THEN LeadingDigits(Tail(text), 10 * value + DigitValue(text[1]), TRUE)
  ELSE [nan |-> ~any, value |-> value]

\* parseInt(text, 10): white space, a sign, then digits; NaN without a digit
RECURSIVE parseInt(_)
parseInt(text) ==
  IF text # <<>> /\ text[1] = " " THEN parseInt(Tail(text))
  ELSE IF text # <<>> /\ text[1] \in {"-", "+"}
  THEN LET digits == LeadingDigits(Tail(text), 0, FALSE)
       IN IF text[1] = "-" /\ ~digits.nan
          THEN [nan |-> FALSE, value |-> 0 - digits.value]
          ELSE digits
  ELSE LeadingDigits(text, 0, FALSE)

\* text.split(separator): the pieces between the separators
RECURSIVE Split(_, _)
Split(text, separator) ==
  IF \A i \in DOMAIN text : text[i] # separator
  THEN <<text>>
  ELSE LET at == CHOOSE i \in DOMAIN text :
                   text[i] = separator /\ \A j \in 1..(i - 1) : text[j] # separator
       IN <<SubSeq(text, 1, at - 1)>> \o Split(SubSeq(text, at + 1, Len(text)), separator)

\* CodeFlowFactory.parseCodeFlowId
parseCodeFlowId(idText) ==
  IF idText # <<"-", "1">>
  THEN With(Split(idText, "_"), LAMBDA cFSelectionId :
         IF Len(cFSelectionId) = 3
         THEN [defined |-> TRUE,
               cFId   |-> parseInt(cFSelectionId[1]),
               stepId |-> parseInt(cFSelectionId[3]),
               tFId   |-> parseInt(cFSelectionId[2])]
         ELSE [defined |-> FALSE])
  ELSE [defined |-> FALSE]

\* CodeFlowFactory.mapThreadFlowLocationsFromRun: the entries it sets in
\* threadFlowLocations, keyed `${runInfo.id}_${index}`
mapThreadFlowLocationsFromRun(runInfoId, tFLocs) ==
  [key \in {NumberToString(runInfoId) \o <<"_">> \o NumberToString(index) :
              index \in 0..(Len(tFLocs) - 1)} |->
     tFLocs[parseInt(Split(key, "_")[2]).value + 1]]

\* the thread flow location itself, or the one of threadFlowLocations its index names
LookedUp(threadFlowLocations, runInfoId, tFLocOrig) ==
  IF Has(tFLocOrig, "index")
  THEN LET key == NumberToString(runInfoId) \o <<"_">> \o NumberToString(tFLocOrig.index)
       IN IF key \in DOMAIN threadFlowLocations THEN threadFlowLocations[key]
          ELSE tFLocOrig
  ELSE tFLocOrig

\* a Location object made by LocationFactory.create during the named call; the
\* call stands for the identity of the object
LocationObject(fileMapper, sarifLocation, madeBy) ==
  [madeBy |-> madeBy, value |-> LocationCreate(fileMapper, sarifLocation.artifact)]

\* loc of createCodeFlowStep: the Location of tFLoc.location, or undefined
StepLocation(fileMapper, tFLoc, madeBy) ==
  IF Has(tFLoc, "location")
  THEN LocationObject(fileMapper, tFLoc.location, madeBy)
  ELSE [madeBy |-> madeBy, value |-> NoLocation]

createCodeFlowStepByOrigin(fileMapper, threadFlowLocations, runInfoId, tFLocOrig, nextTFLocOrig, indexId, stepNumber) ==
  LET both == /\ nextTFLocOrig # <<>> /\ Has(tFLocOrig, "nestingLevel")
              /\ Has(nextTFLocOrig[1], "nestingLevel")
  IN [beforeIcon  |-> <<>>,
      location    |-> StepLocation(fileMapper, tFLocOrig, "createCodeFlowStep"),
      isLastChild |-> both /\ tFLocOrig.nestingLevel > nextTFLocOrig[1].nestingLevel,
      isParent    |-> both /\ tFLocOrig.nestingLevel < nextTFLocOrig[1].nestingLevel,
      message     |-> "[no description]",
      messageWithStep |-> [stepNumber |-> stepNumber, messageText |-> "[no description]"],
      nestingLevel |-> IF Has(tFLocOrig, "nestingLevel") THEN tFLocOrig.nestingLevel ELSE -1,
      traversalId |-> indexId]

\* CodeFlowFactory.createCodeFlowStep for a thread flow location whose location,
\* if it has one, has no message; nextTFLocOrig is a sequence of one location,
\* or empty for undefined
createCodeFlowStep(fileMapper, threadFlowLocations, runInfoId, tFLocOrig, nextTFLocOrig, indexId, stepNumber) ==
  LET tFLoc == LookedUp(threadFlowLocations, runInfoId, tFLocOrig)
      flags ==
        IF nextTFLocOrig # <<>>
        THEN LET nextTFLoc == LookedUp(threadFlowLocations, runInfoId, nextTFLocOrig[1])
                 own  == Has(tFLoc, "nestingLevel")
                 next == Has(nextTFLoc, "nestingLevel")
             IN IF own /\ next
                THEN IF tFLoc.nestingLevel < nextTFLoc.nestingLevel \/ (~own /\ next)
                     THEN [isParent |-> TRUE, isLastChild |-> FALSE]
                     ELSE IF tFLoc.nestingLevel > nextTFLoc.nestingLevel \/ (own /\ ~next)
                          THEN [isParent |-> FALSE, isLastChild |-> TRUE]
                          ELSE [isParent |-> FALSE, isLastChild |-> FALSE]
                ELSE [isParent |-> FALSE, isLastChild |-> FALSE]
        ELSE [isParent |-> FALSE, isLastChild |-> FALSE]
      messageText == IF flags.isLastChild THEN "[return call]" ELSE "[no description]"
  IN [beforeIcon  |-> <<>>,
      location    |-> StepLocation(fileMapper, tFLoc, "createCodeFlowStep"),
      isLastChild |-> flags.isLastChild,
      isParent    |-> flags.isParent,
      message     |-> messageText,
      messageWithStep |-> [stepNumber |-> stepNumber, messageText |-> messageText],
      nestingLevel |-> IF Has(tFLoc, "nestingLevel") THEN tFLoc.nestingLevel ELSE -1,
      traversalId |-> indexId]

\* Utilities.IconsPath + iconName
IconPath(iconName) == <<"IconsPath", iconName>>

getBeforeIconBelow(index, threadFlow) ==
  LET steps == threadFlow.steps
      step == steps[index + 1]
  IN IF step.isParent
     THEN IF \E nextIndex \in (index + 1)..(Len(steps) - 1) :
               steps[nextIndex + 1].nestingLevel < step.nestingLevel
          THEN IconPath("call-with-return.svg")
          ELSE IconPath("call-no-return.svg")
     ELSE IF step.isLastChild
     THEN IF /\ step.nestingLevel # -1
             /\ \E prevIndex \in 0..(index - 1) :
                  steps[prevIndex + 1].nestingLevel <= step.nestingLevel
          THEN IconPath("return-with-call.svg")
          ELSE IconPath("return-no-call.svg")
     ELSE <<>>

\* CodeFlowFactory.getBeforeIcon: the path of the icon, or the empty sequence
\* for undefined
getBeforeIcon(index, threadFlow) ==
  LET steps == threadFlow.steps
      step == steps[index + 1]
  IN IF step.isParent
     THEN IF \E nextIndex \in (index + 1)..(Len(steps) - 1) :
               steps[nextIndex + 1].nestingLevel <= step.nestingLevel
          THEN IconPath("call-with-return.svg")
          ELSE IconPath("call-no-return.svg")
     ELSE IF step.isLastChild
     THEN IF /\ step.nestingLevel # -1
             /\ \E prevIndex \in 0..(index - 1) :
                  steps[prevIndex + 1].nestingLevel < step.nestingLevel
          THEN IconPath("return-with-call.svg")
          ELSE IconPath("return-no-call.svg")
     ELSE <<>>

getLevelsFirstStepIsNestedNoZero(step, hasUndefinedNL, hasZeroNL) ==
  IF step.nestingLevel = -1 THEN 0
  ELSE IF step.nestingLevel = 0 THEN (IF hasUndefinedNL THEN 1 ELSE 0)
  ELSE (IF hasUndefinedNL THEN 1 ELSE 0) + (step.nestingLevel - 1)

\* CodeFlowFactory.getLevelsFirstStepIsNested
getLevelsFirstStepIsNested(step, hasUndefinedNL, hasZeroNL) ==
  LET firstNestingLevel == step.nestingLevel
  IN IF firstNestingLevel = -1 THEN 0
     ELSE IF firstNestingLevel = 0 THEN (IF hasUndefinedNL THEN 1 ELSE 0)
     ELSE (IF hasUndefinedNL THEN 1 ELSE 0) + (IF hasZeroNL THEN 1 ELSE 0)
          + (firstNestingLevel - 1)

\* CodeFlowFactory.createThreadFlow of a thread flow with at least one location:
\* the steps, then the icon of each step and the nesting of the first step
createThreadFlow(fileMapper, threadFlowLocations, runInfoId, sarifTF, indexId) ==
  With([steps |-> [i \in 1..Len(sarifTF.locations) |->
                createCodeFlowStep(fileMapper, threadFlowLocations, runInfoId, sarifTF.locations[i],
                                   IF i + 1 <= Len(sarifTF.locations)
                                   THEN <<sarifTF.locations[i + 1]>> ELSE <<>>,
                                   indexId \o <<"_">> \o NumberToString(i - 1), i)]],
       LAMBDA threadFlow :
    [lvlsFirstStepIsNested |->
       getLevelsFirstStepIsNested(
         threadFlow.steps[1],
         \E i \in DOMAIN threadFlow.steps : threadFlow.steps[i].nestingLevel = -1,
         \E i \in DOMAIN threadFlow.steps : threadFlow.steps[i].nestingLevel = 0),
     steps |-> [i \in DOMAIN threadFlow.steps |->
                  [threadFlow.steps[i] EXCEPT !.beforeIcon = getBeforeIcon(i - 1, threadFlow)]]])

\* CodeFlowFactory.createCodeFlow
createCodeFlow(fileMapper, threadFlowLocations, runInfoId, sarifCF, indexId) ==
  [threads |-> [t \in 1..Len(sarifCF.threadFlows) |->
                  createThreadFlow(fileMapper, threadFlowLocations, runInfoId, sarifCF.threadFlows[t],
                                   indexId \o <<"_">> \o NumberToString(t - 1))]]

createCountingFromOne(fileMapper, threadFlowLocations, runInfoId, sarifCodeFlows) ==
  [c \in 1..Len(sarifCodeFlows) |->
     createCodeFlow(fileMapper, threadFlowLocations, runInfoId, sarifCodeFlows[c], NumberToString(c))]

\* CodeFlowFactory.create of a defined array of code flows
create(fileMapper, threadFlowLocations, runInfoId, sarifCodeFlows) ==
  [c \in 1..Len(sarifCodeFlows) |->
     createCodeFlow(fileMapper, threadFlowLocations, runInfoId, sarifCodeFlows[c], NumberToString(c - 1))]

\* run.threadFlowLocations of the run tried: nesting level 1 in f1.c, nesting
\* level 2 and a location without a nesting level, both without a location
RunThreadFlowLocations ==
  <<[nestingLevel |-> 1, location |-> [artifact |-> "f1.c"]], [nestingLevel |-> 2], <<>>>>

\* thread flow locations given in place: without a nesting level, or with one
InPlace == {<<>>} \cup {[nestingLevel |-> level] : level \in {0, 1, 2}}

\* thread flow locations that name one of the run by index (index 3 names none)
ByIndex == {[index |-> index] : index \in 0..3} \cup {[index |-> 3, nestingLevel |-> 1]}

ThreadOf(locations) == [locations |-> locations]

OneThread(locations) == <<[threadFlows |-> <<ThreadOf(locations)>>]>>

\* result.codeFlows: one thread flow of one to three locations given in place,
\* of two locations of any kind, of the levels 1, 2, 2, 1, of eleven
\* locations, and two code flows of two thread flows each
SarifCodeFlows ==
  LET short == UNION {[1..n -> InPlace] : n \in 1..3}
      pairs == [1..2 -> InPlace \cup ByIndex]
      nested == <<[nestingLevel |-> 1], [nestingLevel |-> 2],
                  [nestingLevel |-> 2], [nestingLevel |-> 1]>>
      long == [i \in 1..11 |-> <<>>]
      two(a, b) == [threadFlows |-> <<ThreadOf(a), ThreadOf(b)>>]
  IN {OneThread(locations) : locations \in short \cup pairs \cup {nested, long}}
     \cup {<<two(nested, long), two(<<[index |-> 1]>>, nested)>>}

\* the texts parseCodeFlowId is tried on
IdTexts ==
  LET characters == {"1", "0", "_", "-", "x"}
  IN UNION {[1..n -> characters] : n \in 0..3}
     \cup {<<"0", "_", "0", "_", "0">>, <<"1", "_", "0", "_", "1", "0">>,
           <<"1", "0", "_", "1", "2", "_", "1", "1">>, <<"1", "_", "2">>,
           <<"1", "_", "2", "_", "3", "_", "4">>, <<"_", "_">>, <<"a", "_", "b", "_", "c">>}

CallCreate(sarifCodeFlows) ==
  /\ lastCall' = [Call("create", "") EXCEPT
                    !.input = sarifCodeFlows,
                    !.output = create({}, mapThreadFlowLocationsFromRun(0, RunThreadFlowLocations),
                                      0, sarifCodeFlows)]
  /\ UNCHANGED sarifJSONMapping
  /\ FnFrame

\* CodeFlowFactory.tryRemapCodeFlows: codeFlows as the call leaves the array
tryRemapCodeFlows(fileMapper, threadFlowLocations, runInfoId, codeFlows, sarifCodeFlows) ==
  [c \in DOMAIN codeFlows |->
     [codeFlows[c] EXCEPT !.threads =
        [t \in DOMAIN codeFlows[c].threads |->
           [codeFlows[c].threads[t] EXCEPT !.steps =
              [n \in DOMAIN codeFlows[c].threads[t].steps |->
                 LET step == codeFlows[c].threads[t].steps[n]
                     tFLoc == sarifCodeFlows[c].threadFlows[t].locations[n]
                 IN IF step.location.value.defined /\ ~step.location.value.mapped
                       /\ Has(tFLoc, "location")
                    THEN [step EXCEPT !.location =
                            LocationObject(fileMapper, tFLoc.location, "tryRemapCodeFlows")]
                    ELSE step]]]]]

\* thread flow locations with a location: in place, and by the index of the
\* run's entry that has one
Located ==
  {[location |-> [artifact |-> artifact]] : artifact \in Artifacts}
  \cup {<<>>, [index |-> 0], [index |-> 1]}

\* result.codeFlows of the remapping tried: one thread flow of one or two
\* thread flow locations
LocatedCodeFlows == {OneThread(locations) : locations \in UNION {[1..n -> Located] : n \in 1..2}}

\* a code flow array is built while the artifacts of before are mapped, and
\* tryRemapCodeFlows runs on it once those of after are
CallTryRemapCodeFlows(sarifCodeFlows, before, after) ==
  /\ before \subseteq after
  /\ \E threadFlowLocations \in {mapThreadFlowLocationsFromRun(0, RunThreadFlowLocations)} :
       \E codeFlows \in {create(before, threadFlowLocations, 0, sarifCodeFlows)} :
         lastCall' = [Call("tryRemapCodeFlows", "") EXCEPT
                        !.input = [sarifCodeFlows |-> sarifCodeFlows, codeFlows |-> codeFlows,
                                   fileMapper |-> after],
                        !.output = tryRemapCodeFlows(after, threadFlowLocations, 0,
                                                     codeFlows, sarifCodeFlows)]
  /\ UNCHANGED sarifJSONMapping
  /\ FnFrame

\* FileMapper.getUserToChooseFile: the user is asked for the file once and picks
\* one, which maps the artifact, or cancels
getUserToChooseFile(fileMapper, artifact, picks) ==
  IF picks THEN fileMapper \cup {artifact} ELSE fileMapper

getOrRemapAlways(fileMapper, location, sarifLocation, picks) ==
  IF location # <<>> /\ location[1].mapped
  THEN [defined |-> TRUE, given |-> TRUE, value |-> location[1], prompts |-> 0]
  ELSE IF location = <<>> \/ ~Has(location[1], "uriBase") \/ location[1].uriBase = ""
  THEN [defined |-> FALSE, given |-> FALSE, value |-> <<>>, prompts |-> 0]
  ELSE [defined |-> TRUE, given |-> FALSE, value |-> <<>>, prompts |-> 1]

\* LocationFactory.getOrRemap; location and sarifLocation are sequences of one
\* value, or empty for undefined.  given tells that the object returned is the
\* one passed in, prompts how often the user was asked
getOrRemap(fileMapper, location, sarifLocation, picks) ==
  IF location # <<>> /\ location[1].mapped
  THEN [defined |-> TRUE, given |-> TRUE, value |-> location[1], prompts |-> 0]
  ELSE IF location = <<>> \/ ~Has(location[1], "uriBase") \/ location[1].uriBase = ""
  THEN [defined |-> FALSE, given |-> FALSE, value |-> <<>>, prompts |-> 0]
  ELSE IF sarifLocation = <<>> \/ ~Has(sarifLocation[1], "physicalLocation")
  THEN [defined |-> TRUE, given |-> TRUE, value |-> location[1], prompts |-> 0]
  ELSE LET physLoc == sarifLocation[1].physicalLocation
       IN IF \/ ~Has(physLoc, "artifactLocation")
             \/ ~Has(physLoc.artifactLocation, "uri")
             \/ physLoc.artifactLocation.uri = ""
          THEN [defined |-> TRUE, given |-> TRUE, value |-> location[1], prompts |-> 0]
          ELSE [defined |-> TRUE, given |-> FALSE,
                value |-> LocationCreate(getUserToChooseFile(fileMapper,
                                           physLoc.artifactLocation.uri, picks),
                                         physLoc.artifactLocation.uri),
                prompts |-> 1]

\* the Location passed to getOrRemap: undefined, or mapped or not, without a
\* uriBase, with an empty one or with one
GivenLocations ==
  {<<>>} \cup {<<[mapped |-> mapped]>> : mapped \in BOOLEAN}
  \cup {<<[mapped |-> mapped, uriBase |-> uriBase]>> :
          mapped \in BOOLEAN, uriBase \in {"", "file:///base"}}

\* the raw SARIF location passed to getOrRemap: undefined, without a physical
\* location, without an artifact location, without a uri, with an empty uri
\* or with the uri of an artifact
GivenSarifLocations ==
  {<<>>, <<<<>>>>, <<[physicalLocation |-> <<>>]>>,
   <<[physicalLocation |-> [artifactLocation |-> <<>>]]>>}
  \cup {<<[physicalLocation |-> [artifactLocation |-> [uri |-> uri]]]>> :
          uri \in {"", "f1.c"}}

CallGetOrRemap(fileMapper, location, sarifLocation, picks) ==
  /\ lastCall' = [Call("getOrRemap", "") EXCEPT
                    !.input = [fileMapper |-> fileMapper, location |-> location,
                               sarifLocation |-> sarifLocation, picks |-> picks],
                    !.output = getOrRemap(fileMapper, location, sarifLocation, picks)]
  /\ UNCHANGED sarifJSONMapping
  /\ FnFrame

CallParseCodeFlowId(idText) ==
  /\ lastCall' = [Call("parseCodeFlowId", "") EXCEPT
                    !.input = idText, !.output = parseCodeFlowId(idText)]
  /\ UNCHANGED sarifJSONMapping
  /\ FnFrame

NextFn ==
  \/ \E region \in Regions : CallParseRange(region)
  \/ \E baseIds \in BaseIdDictionaries : CallExpandBaseIds(baseIds)
  \/ \E sarifCodeFlows \in SarifCodeFlows : CallCreate(sarifCodeFlows)
  \/ \E idText \in IdTexts : CallParseCodeFlowId(idText)
  \/ \E sarifCodeFlows \in LocatedCodeFlows, before \in SUBSET Artifacts,
        after \in SUBSET Artifacts :
       CallTryRemapCodeFlows(sarifCodeFlows, before, after)
  \/ \E fileMapper \in {{}, {"f1.c"}}, location \in GivenLocations,
        sarifLocation \in GivenSarifLocations, picks \in BOOLEAN :
       CallGetOrRemap(fileMapper, location, sarifLocation, picks)

SpecFn == Init /\ [][NextFn]_vars

----------------------------------------------------------------------------
(* The thread flow locations of the runs, over reads, closes and clears.   *)
(* threadFlowLocations is a Map of the module CodeFlowFactory: read adds   *)
(* the entries of each run to it under the run's id, and nothing takes an  *)
(* entry out.                                                              *)

\* the runs tried, each with one result of one code flow: a run that declares
\* two thread flow locations and names both by index, a run that declares none
\* and names index 1 from a step with its own location, and a run that declares
\* one and names index 0 and index 1
ThreadFlowRuns ==
  { [threadFlowLocations |-> <<[nestingLevel |-> 1, location |-> [artifact |-> "f1.c"]],
                               [nestingLevel |-> 2, location |-> [artifact |-> "f2.c"]]>>,
     codeFlows |-> OneThread(<<[index |-> 0], [index |-> 1]>>)],
    [threadFlowLocations |-> <<>>,
     codeFlows |-> OneThread(<<[index |-> 1, nestingLevel |-> 0,
                                location |-> [artifact |-> "f1.c"]]>>)],
    [threadFlowLocations |-> <<[nestingLevel |-> 0, location |-> [artifact |-> "f2.c"]]>>,
     codeFlows |-> OneThread(<<[index |-> 0], [index |-> 1]>>)] }

\* Map.set of every entry of added
SetAll(map, added) ==
  [key \in DOMAIN map \cup DOMAIN added |->
     IF key \in DOMAIN added THEN added[key] ELSE map[key]]

\* read(doc, true) of a log of one run: the run gets its id, its thread flow
\* locations are registered, and the code flows of its result are created
ReadThreadFlows(doc, run) ==
  /\ doc \notin openDocs
  /\ 1 <= MaxDiags - Cardinality(DOMAIN heap)
  /\ NextRunId(Cur) <= MaxRunId
  /\ openDocs' = openDocs \cup {doc}
  /\ threadFlowLocationsMap' =
       SetAll(threadFlowLocationsMap,
              mapThreadFlowLocationsFromRun(NextRunId(Cur), run.threadFlowLocations))
  /\ \E done \in {read(Cur, fileRemapping, doc, << <<InFile1>> >>, TRUE)} :
       /\ Commit(done.c)
       /\ lastCall' = [Call("read", doc) EXCEPT
                         !.issued = <<NextRunId(Cur)>>,
                         !.input = run,
                         !.output = create(fileRemapping, threadFlowLocationsMap',
                                           NextRunId(Cur), run.codeFlows)]
       /\ highestIssued' = Max({highestIssued, NextRunId(Cur)})
  /\ UNCHANGED <<fileRemapping, reading, progress, sarifJSONMapping, remaps, scanState>>

NextThreadFlow ==
  \/ \E doc \in Docs, run \in ThreadFlowRuns : ReadThreadFlows(doc, run)
  \/ \E doc \in Docs : CloseDocument(doc)
  \/ ClearAll

SpecThreadFlow == Init /\ [][NextThreadFlow]_vars

----------------------------------------------------------------------------
(* Scan.  scanState holds the static fields scanInProgress and             *)
(* scanCliAvailable, the invocations of performSastScan that await         *)
(* deleteResults (deleting, each by its baseCmd), the subprocesses that    *)
(* run (processes, each by its baseCmd) and how many were ever spawned.    *)

\* how many subprocesses are spawned in all
MaxScans == 3

\* Scan.checkLocalCommand; found is whether `which scan` exits with 0
checkLocalCommand(s, found) ==
  IF s.scanCliAvailable THEN s ELSE [s EXCEPT !.scanCliAvailable = found]

\* spawn(baseCmd, cmdArgs, ...) and the listeners put on the process
spawn(s, baseCmd) ==
  [s EXCEPT !.processes = Append(@, baseCmd), !.spawned = @ + 1]

performSastScanUnmarked(s, containerTool, found, folders) ==
  IF s.scanInProgress THEN [scan |-> s, outcome |-> "ignored"]
  ELSE IF ~folders THEN [scan |-> s, outcome |-> "thrown"]
  ELSE With(checkLocalCommand(s, found), LAMBDA checked :
         LET baseCmd == IF checked.scanCliAvailable THEN "scan" ELSE containerTool
         IN IF baseCmd # "podman"
            THEN [scan |-> [checked EXCEPT !.deleting = Append(@, baseCmd)],
                  outcome |-> "awaiting"]
            ELSE [scan |-> spawn(checked, baseCmd), outcome |-> "spawned"])

\* Scan.performSastScan up to its await of deleteResults, or to its end when
\* it does not await; folders is whether the workspace has a folder (reading
\* workspaceFolders![0] throws otherwise)
performSastScan(s, containerTool, found, folders) ==
  IF s.scanInProgress THEN [scan |-> s, outcome |-> "ignored"]
  ELSE With([s EXCEPT !.scanInProgress = TRUE], LAMBDA marked :
         IF ~folders THEN [scan |-> marked, outcome |-> "thrown"]
         ELSE With(checkLocalCommand(marked, found), LAMBDA checked :
                LET baseCmd == IF checked.scanCliAvailable THEN "scan" ELSE containerTool
                IN IF baseCmd # "podman"
                   THEN [scan |-> [checked EXCEPT !.deleting = Append(@, baseCmd)],
                         outcome |-> "awaiting"]
                   ELSE [scan |-> spawn(checked, baseCmd), outcome |-> "spawned"]))

\* the listener of "close" of the oldest running subprocess
onClose(s) == [s EXCEPT !.scanInProgress = FALSE, !.processes = Tail(@)]

ContainerTools == {"docker", "podman"}

ScanFrame ==
  UNCHANGED <<runInfoCollection, mappedIssuesCollection, unmappedIssuesCollection,
              diagnosticCollection, heap, fileRemapping, openDocs, fired,
              highestIssued, reading, progress, sarifJSONMapping, remaps,
              threadFlowLocationsMap>>

\* the command extension.shiftleft.PerformScan
PerformSastScan(containerTool, found, folders) ==
  /\ scanState.scanInProgress \/ scanState.spawned < MaxScans
  /\ \E called \in {performSastScan(scanState, containerTool, found, folders)} :
       /\ scanState' = called.scan
       /\ lastCall' = [Call("performSastScan", "") EXCEPT
                         !.thrown = (called.outcome = "thrown"),
                         !.input = [containerTool |-> containerTool, found |-> found,
                                    folders |-> folders],
                         !.output = called.outcome]
  /\ ScanFrame

\* deleteResults settles: performSastScan goes on to spawn the subprocess, or
\* ends there when deleteResults rejected
ResumeSastScan(deleted) ==
  /\ scanState.deleting # <<>>
  /\ \E waiting \in {[scanState EXCEPT !.deleting = Tail(@)]} :
       scanState' = IF deleted THEN spawn(waiting, Head(scanState.deleting)) ELSE waiting
  /\ lastCall' = [Call("performSastScan resumed", "") EXCEPT
                    !.thrown = ~deleted,
                    !.output = IF deleted THEN "spawned" ELSE "thrown"]
  /\ ScanFrame

\* a subprocess ends and its streams are closed; code is its exit code
ProcessCloses(code) ==
  /\ scanState.processes # <<>>
  /\ scanState' = onClose(scanState)
  /\ lastCall' = [Call("close", "") EXCEPT
                    !.errorShown = (code # 0),
                    !.output = IF code # 0 THEN "failed" ELSE "results"]
  /\ ScanFrame

NextScan ==
  \/ \E containerTool \in ContainerTools, found \in BOOLEAN, folders \in BOOLEAN :
       PerformSastScan(containerTool, found, folders)
  \/ \E deleted \in BOOLEAN : ResumeSastScan(deleted)
  \/ \E code \in {0, 1} : ProcessCloses(code)

SpecScan == Init /\ [][NextScan]_vars

----------------------------------------------------------------------------
(* Properties *)

InMapped(ref) == ref \in SeqToSet(Flatten(mappedIssuesCollection))
InUnmapped(ref) == ref \in SeqToSet(Flatten(unmappedIssuesCollection))

StartsWithUnmapped(message) == Len(message) > 0 /\ message[1] = UnmappedPrefix

EventTypes == [i \in 1..Len(fired) |-> fired[i].type]
Synchronized == fired # <<>> /\ fired[Len(fired)].type = "Synchronize"

C3_IdsNeverReused ==
  [][\A i \in 1..Len(lastCall'.issued) :
       /\ lastCall'.issued[i] > highestIssued
       /\ \A j \in 1..(i - 1) : lastCall'.issued[j] < lastCall'.issued[i]
  ]_vars

\* the entries of a bucket without the diagnostics of the runs in ids, in order
RECURSIVE Without(_, _, _)
Without(collection, objects, ids) ==
  IF collection = <<>> THEN <<>>
  ELSE LET kept == SelectSeq(Head(collection).value, LAMBDA d : objects[d].runId \notin ids)
           rest == Without(Tail(collection), objects, ids)
       IN IF kept = <<>> THEN rest
          ELSE <<[key |-> Head(collection).key, value |-> kept]>> \o rest

RealShown(diags) ==
  LET real == SelectSeq(diags, LAMBDA e : ~e.sentinel)
  IN [i \in 1..Len(real) |-> real[i].ref]
Sentinels(diags) == SelectSeq(diags, LAMBDA e : e.sentinel)

CappedEntry(entry) ==
  LET issues == entry.value
      n == Len(issues)
      uri == heap[issues[1]].assignedLocation.uri
  IN /\ uri \in DOMAIN diagnosticCollection
     /\ LET diags == diagnosticCollection[uri]
        IN IF n <= MaxDiagCollectionSize
           THEN /\ RealShown(diags) = issues
                /\ Sentinels(diags) = <<>>
           ELSE /\ RealShown(diags) = SubSeq(issues, 1, MaxDiagCollectionSize)
                /\ Len(Sentinels(diags)) = 1
                /\ Sentinels(diags)[1].shown = MaxDiagCollectionSize
                /\ Sentinels(diags)[1].total = n

C8_UnmappedPrefix ==
  \A d \in DOMAIN heap :
    /\ StartsWithUnmapped(heap[d].message)
         <=> (~heap[d].assignedLocation.defined \/ ~heap[d].assignedLocation.mapped)
    /\ Cardinality({i \in 1..Len(heap[d].message) : heap[d].message[i] = UnmappedPrefix}) <= 1

\* C8 witness: a remapped diagnostic without the prefix beside one that kept it
C8_Witness ==
  /\ lastCall.op = "mappingChanged"
  /\ \E d \in DOMAIN heap : heap[d].assignedLocation.mapped /\ heap[d].message = <<heap[d].text>>
  /\ \E d \in DOMAIN heap : ~heap[d].assignedLocation.mapped /\ StartsWithUnmapped(heap[d].message)

\* C10 (as claimed): a result that cannot be represented yields no diagnostic, every
\* other representable result of the document gets its diagnostic, and no Error
\* escapes read.
C10_PerResultIsolation ==
  lastCall.op = "read" =>
    /\ ~lastCall.thrown
    /\ Cardinality({i \in 1..Len(fired) : fired[i].type = "Add"}) = lastCall.representable

\* C5 (as claimed): add files the diagnostic in exactly one bucket, the mapped one
\* when its assigned location is present and mapped and the unmapped one otherwise
\* (also without a uri), and getResultInfo then finds it.
C5_AddFilesInOneBucket ==
  lastCall.op = "add" =>
    LET issue == lastCall.issue
        assigned == heap[issue].assignedLocation
    IN /\ InMapped(issue) <=> (assigned.defined /\ assigned.mapped)
       /\ InUnmapped(issue) <=> ~(assigned.defined /\ assigned.mapped)
       /\ getResultInfo(Cur, heap[issue].id, heap[issue].runId) = issue

\* the fixed lookup of the severity of a level
SeverityOf(level) ==
  CASE level = "error"   -> DiagnosticSeverity.Error
    [] level = "warning" -> DiagnosticSeverity.Warning
    [] level = "note"    -> DiagnosticSeverity.Information
    [] level = "none"    -> DiagnosticSeverity.Information
    [] OTHER             -> DiagnosticSeverity.Warning

\* C9 (as claimed): the severity of every diagnostic made is the fixed lookup of
\* its level: "error" gives Error, "warning" Warning, "note" and "none"
\* Information, any other or missing level Warning.
C9_SeverityLookup ==
  \A d \in DOMAIN heap : heap[d].severity = SeverityOf(heap[d].level)

\* a read of the document is suspended after it registered a run
MidStream(doc) == reading[doc].pc = "loading"

\* the document has a diagnostic on display
Displayed(doc) ==
  \E uri \in DOMAIN diagnosticCollection :
    \E i \in 1..Len(diagnosticCollection[uri]) :
      /\ ~diagnosticCollection[uri][i].sentinel
      /\ heap[diagnosticCollection[uri][i].ref].sarifFile = doc

\* C7 (as claimed): while a read of a document is suspended partway through its
\* runs, no step runs syncDiagnostics, and the displayed set holds no diagnostic
\* of that document.
C7_NoSyncMidStream ==
  \A doc \in Docs :
    MidStream(doc) =>
      /\ \A i \in 1..Len(fired) : fired[i].type # "Synchronize"
      /\ ~Displayed(doc)

\* C11: a read that ends in a parse error (not JSON, or no $schema) shows an error
\* message and adds no run and adds, removes or re-synchronizes no diagnostic; what
\* was loaded from other documents is unchanged.
C11_ParseErrorIsLocal ==
  [][(lastCall'.op = "read" /\ lastCall'.errorShown) =>
       /\ runInfoCollection' = runInfoCollection
       /\ mappedIssuesCollection' = mappedIssuesCollection
       /\ unmappedIssuesCollection' = unmappedIssuesCollection
       /\ diagnosticCollection' = diagnosticCollection
       /\ heap' = heap
       /\ fired' = <<>>
  ]_vars

\* C11 witness: a parse error while another document's diagnostics are loaded in
\* both buckets and displayed
C11_Witness ==
  /\ lastCall.op = "read"
  /\ lastCall.errorShown
  /\ runInfoCollection # <<>>
  /\ mappedIssuesCollection # <<>>
  /\ unmappedIssuesCollection # <<>>
  /\ DOMAIN diagnosticCollection # {}

\* C12 (as claimed): no call of mapToSarifFileResult, mapToSarifFileLocation or
\* createLocationOfMapping changes an entry of a pointer table, and
\* mapToSarifFileLocation returns the full span of the value, as parsed, whatever
\* calls came before.
C12_PointerTableNeverMutated ==
  [][/\ lastCall'.op \in {"mapToSarifFileResult", "mapToSarifFileLocation",
                          "createLocationOfMapping"}
          => sarifJSONMapping' = sarifJSONMapping
     /\ (lastCall'.op = "mapToSarifFileLocation" /\ lastCall'.output.defined)
          => LET runIndex == lastCall'.input[1]
                 resultIndex == lastCall'.input[2]
                 parsed == Pointers[LocationPath(runIndex, resultIndex,
                             SarifData.runs[runIndex + 1].results[resultIndex + 1])]
             IN lastCall'.output.range =
                  NewRange(parsed.value.line, parsed.value.column,
                           parsed.valueEnd.line, parsed.valueEnd.column)
  ]_vars

C14_EndCascade ==
  (/\ lastCall.op = "parseRange"
   /\ Has(lastCall.input, "startLine") /\ ~Has(lastCall.input, "endColumn"))
  => LET region == lastCall.input
         hasText == Has(region, "snippet") /\ Has(region.snippet, "text")
         hasBinary == Has(region, "snippet") /\ Has(region.snippet, "binary")
         startcol == IF Has(region, "startColumn") THEN region.startColumn - 1 ELSE 0
         endline == IF Has(region, "endLine") THEN region.endLine - 1
                    ELSE region.startLine - 1
         expected ==
           IF hasText
           THEN [range |-> NewRange(region.startLine - 1, startcol, endline,
                                    Len(region.snippet.text) - 2),
                 endOfLine |-> FALSE]
           ELSE IF hasBinary
           THEN [range |-> NewRange(region.startLine - 1, startcol, endline,
                                    Len(BufferFromBase64(region.snippet.binary))),
                 endOfLine |-> FALSE]
           ELSE [range |-> NewRange(region.startLine - 1, startcol, endline + 1, 0),
                 endOfLine |-> TRUE]
     IN lastCall.output = expected

\* the id an id's uriBaseId names, where it names one
HasParent(id, baseIds) == GivenUriBaseId(baseIds[id])

\* the ids from an id up through its parents, the id first (at most n of them)
RECURSIVE Lineage(_, _, _)
Lineage(id, baseIds, n) ==
  IF n = 0 THEN <<>>
  ELSE IF id \in DOMAIN baseIds /\ HasParent(id, baseIds)
       THEN <<id>> \o Lineage(baseIds[id].uriBaseId, baseIds, n - 1)
       ELSE <<id>>

\* every uriBaseId names an id of the dictionary and no id is its own ancestor
WellFounded(baseIds) ==
  \A id \in DOMAIN baseIds :
    LET lineage == Lineage(id, baseIds, Cardinality(DOMAIN baseIds) + 1)
    IN /\ \A i \in DOMAIN lineage : lineage[i] \in DOMAIN baseIds
       /\ Len(lineage) <= Cardinality(DOMAIN baseIds)

\* a segment without the slash at its start and, unless it is the last one,
\* without the slash at its end
Trimmed(segment, last) ==
  LET tail == IF segment[1] = "/" THEN SubSeq(segment, 2, Len(segment)) ELSE segment
  IN IF ~last /\ tail[Len(tail)] = "/" THEN SubSeq(tail, 1, Len(tail) - 1) ELSE tail

C16_ExpandBaseIdsReturns ==
  lastCall.op = "expandBaseIds" => ~lastCall.thrown

\* the text "c_t_s" of three numbers
IdText(c, t, s) ==
  NumberToString(c) \o <<"_">> \o NumberToString(t) \o <<"_">> \o NumberToString(s)

Number(n) == [nan |-> FALSE, value |-> n]

\* how many times a character occurs in a text
Occurrences(text, ch) == Cardinality({i \in DOMAIN text : text[i] = ch})

\* C17: the step CodeFlowFactory.create builds at code-flow index c, thread-flow
\* index t and step index s has the traversal id "c_t_s" and the step number
\* s + 1, and parseCodeFlowId of "c_t_s" returns cFId c, tFId t and stepId s;
\* parseCodeFlowId returns undefined for "-1" and for every text that does not
\* split on "_" into exactly three pieces.
C17_TraversalIdRoundTrip ==
  /\ lastCall.op = "create" =>
       \A c \in DOMAIN lastCall.output :
         \A t \in DOMAIN lastCall.output[c].threads :
           \A n \in DOMAIN lastCall.output[c].threads[t].steps :
             LET step == lastCall.output[c].threads[t].steps[n]
             IN /\ step.traversalId = IdText(c - 1, t - 1, n - 1)
                /\ step.messageWithStep.stepNumber = (n - 1) + 1
                /\ parseCodeFlowId(step.traversalId) =
                     [defined |-> TRUE, cFId |-> Number(c - 1), tFId |-> Number(t - 1),
                      stepId |-> Number(n - 1)]
  /\ lastCall.op = "parseCodeFlowId" =>
       /\ lastCall.input = <<"-", "1">> => ~lastCall.output.defined
       /\ Occurrences(lastCall.input, "_") # 2 => ~lastCall.output.defined
       /\ \A c \in 0..12, t \in 0..12, n \in 0..12 :
            lastCall.input = IdText(c, t, n) =>
              lastCall.output = [defined |-> TRUE, cFId |-> Number(c), tFId |-> Number(t),
                                 stepId |-> Number(n)]

C17_Witness ==
  /\ lastCall.op = "create"
  /\ Len(lastCall.output) = 2
  /\ lastCall.output[1].threads[2].steps[11].traversalId = <<"0", "_", "1", "_", "1", "0">>
  /\ lastCall.output[1].threads[2].steps[11].messageWithStep.stepNumber = 11
  /\ lastCall.output[2].threads[1].steps[1].traversalId = <<"1", "_", "0", "_", "0">>

\* the nesting level of a thread flow location of the run tried, taken from the
\* location of the run its index names where it names one; -1 for none
ResolvedLevel(tFLocOrig) ==
  LET tFLoc == IF Has(tFLocOrig, "index") /\ tFLocOrig.index < Len(RunThreadFlowLocations)
               THEN RunThreadFlowLocations[tFLocOrig.index + 1]
               ELSE tFLocOrig
  IN IF Has(tFLoc, "nestingLevel") THEN tFLoc.nestingLevel ELSE -1

\* P holds of every step of the last create, given the levels of the step and
\* of the step after it (-1 for no level) and whether there is a step after it
EveryStep(P(_, _, _, _)) ==
  lastCall.op = "create" =>
    \A c \in DOMAIN lastCall.output :
      \A t \in DOMAIN lastCall.output[c].threads :
        LET locations == lastCall.input[c].threadFlows[t].locations
            steps == lastCall.output[c].threads[t].steps
        IN \A i \in DOMAIN steps :
             P(steps[i], ResolvedLevel(locations[i]),
               IF i < Len(locations) THEN ResolvedLevel(locations[i + 1]) ELSE -1,
               i < Len(locations))

\* C18: of two consecutive steps of a thread flow whose nesting levels (taken
\* through threadFlowLocations) are both defined, the first has isParent exactly
\* when its level is below the next one's and isLastChild exactly when it is
\* above; the last step of a thread flow has neither.
C18_NestingFlags ==
  EveryStep(LAMBDA step, level, nextLevel, hasNext :
    /\ (hasNext /\ level # -1 /\ nextLevel # -1) =>
         /\ step.isParent <=> level < nextLevel
         /\ step.isLastChild <=> level > nextLevel
    /\ ~hasNext => (~step.isParent /\ ~step.isLastChild))

C18_Witness ==
  /\ lastCall.op = "create"
  /\ lastCall.input = OneThread(<<[nestingLevel |-> 1], [nestingLevel |-> 2],
                                  [nestingLevel |-> 2], [nestingLevel |-> 1]>>)
  /\ LET steps == lastCall.output[1].threads[1].steps
     IN /\ [i \in 1..4 |-> steps[i].isParent] = <<TRUE, FALSE, FALSE, FALSE>>
        /\ [i \in 1..4 |-> steps[i].isLastChild] = <<FALSE, FALSE, TRUE, FALSE>>

\* C20 (as claimed): of two consecutive steps of a thread flow, when the first
\* has no nesting level and the next has one the first gets isParent; when the
\* first has one and the next has none the first gets isLastChild; when neither
\* has one the first gets neither flag.
C20_NestingTieBreak ==
  EveryStep(LAMBDA step, level, nextLevel, hasNext :
    hasNext =>
      /\ (level = -1 /\ nextLevel # -1) => step.isParent
      /\ (level # -1 /\ nextLevel = -1) => step.isLastChild
      /\ (level = -1 /\ nextLevel = -1) => (~step.isParent /\ ~step.isLastChild))

\* C19 (as claimed): one removeRuns(path) fires at most one "Remove" event; the
\* event carries every diagnostic the call removed, from the mapped and from
\* the unmapped bucket, and no "Remove" event is fired when nothing was removed.
C19_SingleRemoveEvent ==
  [][lastCall'.op = "removeRuns" =>
       LET removed == {d \in DOMAIN heap :
                         /\ InMapped(d) \/ InUnmapped(d)
                         /\ \E i \in 1..Len(runInfoCollection) :
                              /\ runInfoCollection[i].sarifFileFullPath = lastCall'.path
                              /\ runInfoCollection[i].id = heap[d].runId}
           removes == {i \in 1..Len(fired') : fired'[i].type = "Remove"}
       IN /\ Cardinality(removes) <= 1
          /\ removed = {} => removes = {}
          /\ \A i \in removes : SeqToSet(fired'[i].diagnostics) = removed
  ]_vars

\* P holds of every step of every thread flow of the last create, given the
\* steps of the thread flow and the place of the step among them
EveryIcon(P(_, _)) ==
  lastCall.op = "create" =>
    \A c \in DOMAIN lastCall.output :
      \A t \in DOMAIN lastCall.output[c].threads :
        \A i \in DOMAIN lastCall.output[c].threads[t].steps :
          P(lastCall.output[c].threads[t].steps, i)

\* C21: a step with isParent has the icon call-with-return exactly when a later
\* step of its thread flow has a nesting level not above its own, else
\* call-no-return; a step with isLastChild has return-with-call exactly when its
\* level is not -1 and an earlier step has a smaller level, else return-no-call;
\* a step with neither flag has no icon.
C21_BeforeIcon ==
  EveryIcon(LAMBDA steps, i :
    LET step == steps[i]
        laterNotAbove == \E j \in DOMAIN steps :
                           j > i /\ steps[j].nestingLevel <= step.nestingLevel
        earlierBelow == \E j \in DOMAIN steps :
                          j < i /\ steps[j].nestingLevel < step.nestingLevel
    IN /\ step.isParent =>
            step.beforeIcon = IF laterNotAbove THEN IconPath("call-with-return.svg")
                              ELSE IconPath("call-no-return.svg")
       /\ (~step.isParent /\ step.isLastChild) =>
            step.beforeIcon = IF step.nestingLevel # -1 /\ earlierBelow
                              THEN IconPath("return-with-call.svg")
                              ELSE IconPath("return-no-call.svg")
       /\ (~step.isParent /\ ~step.isLastChild) => step.beforeIcon = <<>>)

\* C21 witness: levels 1, 2, 1: a call with its return, then a return with its call
C21_Witness ==
  /\ lastCall.op = "create"
  /\ lastCall.input = OneThread(<<[nestingLevel |-> 1], [nestingLevel |-> 2],
                                  [nestingLevel |-> 1]>>)
  /\ LET steps == lastCall.output[1].threads[1].steps
     IN /\ steps[1].beforeIcon = IconPath("call-with-return.svg")
        /\ steps[2].beforeIcon = IconPath("return-with-call.svg")
        /\ steps[3].beforeIcon = <<>>

\* C22: with L the nesting level of the first step of a thread flow, U whether a
\* step of it has level -1 and Z whether a step of it has level 0,
\* lvlsFirstStepIsNested is 0 when L = -1, U when L = 0, and L - 1 + U + Z when
\* L > 0; it is never negative.
C22_LevelsFirstStepIsNested ==
  lastCall.op = "create" =>
    \A c \in DOMAIN lastCall.output :
      \A t \in DOMAIN lastCall.output[c].threads :
        LET locations == lastCall.input[c].threadFlows[t].locations
            levels == [i \in DOMAIN locations |-> ResolvedLevel(locations[i])]
            L == levels[1]
            U == IF \E i \in DOMAIN levels : levels[i] = -1 THEN 1 ELSE 0
            Z == IF \E i \in DOMAIN levels : levels[i] = 0 THEN 1 ELSE 0
            nested == lastCall.output[c].threads[t].lvlsFirstStepIsNested
        IN /\ L = -1 => nested = 0
           /\ L = 0 => nested = U
           /\ L > 0 => nested = (L - 1) + U + Z
           /\ nested >= 0

C22_Witness ==
  /\ lastCall.op = "create"
  /\ lastCall.input = OneThread(<<[nestingLevel |-> 2], <<>>, [nestingLevel |-> 0]>>)
  /\ lastCall.output[1].threads[1].lvlsFirstStepIsNested = 3

\* C23 (as claimed): tryRemapCodeFlows gives every step whose location is
\* present and unmapped the Location of its SARIF location under the present
\* mapping whenever that one is mapped, also when the step was declared by an
\* index into the run's threadFlowLocations; a step whose location is mapped
\* keeps its location object, and the numbers of code flows, thread flows and
\* steps stay as they were.
C23_RemapRetriesEveryStep ==
  lastCall.op = "tryRemapCodeFlows" =>
    LET before == lastCall.input.codeFlows
        after == lastCall.output
    IN /\ DOMAIN after = DOMAIN before
       /\ \A c \in DOMAIN before :
            /\ DOMAIN after[c].threads = DOMAIN before[c].threads
            /\ \A t \in DOMAIN before[c].threads :
                 /\ DOMAIN after[c].threads[t].steps = DOMAIN before[c].threads[t].steps
                 /\ \A n \in DOMAIN before[c].threads[t].steps :
                      LET old == before[c].threads[t].steps[n].location
                          new == after[c].threads[t].steps[n].location
                          tFLocOrig == lastCall.input.sarifCodeFlows[c].threadFlows[t].locations[n]
                          tFLoc == IF Has(tFLocOrig, "index")
                                      /\ tFLocOrig.index < Len(RunThreadFlowLocations)
                                   THEN RunThreadFlowLocations[tFLocOrig.index + 1]
                                   ELSE tFLocOrig
                      IN /\ (old.value.defined /\ old.value.mapped) => new = old
                         /\ (/\ old.value.defined /\ ~old.value.mapped
                             /\ tFLoc.location.artifact \in lastCall.input.fileMapper)
                              => /\ new.value.mapped
                                 /\ new.value = LocationCreate(lastCall.input.fileMapper,
                                                               tFLoc.location.artifact)

\* the Location passed to the last getOrRemap is mapped
GivenMapped == lastCall.input.location # <<>> /\ lastCall.input.location[1].mapped

\* the Location passed to the last getOrRemap is absent or has no uriBase
GivenWithoutUriBase ==
  \/ lastCall.input.location = <<>>
  \/ ~Has(lastCall.input.location[1], "uriBase")
  \/ lastCall.input.location[1].uriBase = ""

\* the raw SARIF location passed to the last getOrRemap names a uri
GivenSarifUri ==
  /\ lastCall.input.sarifLocation # <<>>
  /\ Has(lastCall.input.sarifLocation[1], "physicalLocation")
  /\ Has(lastCall.input.sarifLocation[1].physicalLocation, "artifactLocation")
  /\ Has(lastCall.input.sarifLocation[1].physicalLocation.artifactLocation, "uri")
  /\ lastCall.input.sarifLocation[1].physicalLocation.artifactLocation.uri # ""

AllStored == Flatten(mappedIssuesCollection) \o Flatten(unmappedIssuesCollection)

\* C25 (as claimed): once every invocation of mappingChanged has completed, no
\* diagnostic is stored twice, in one bucket or in both, and every stored
\* diagnostic belongs to a run of the run collection, however add, removeRuns
\* and the invocations of mappingChanged were interleaved.
C25_BucketIntegrity ==
  remaps = <<>> =>
    /\ \A i, j \in DOMAIN AllStored : AllStored[i] = AllStored[j] => i = j
    /\ \A i \in DOMAIN AllStored :
         \E r \in DOMAIN runInfoCollection :
           runInfoCollection[r].id = heap[AllStored[i]].runId

\* C26 (as claimed): in every state, also when removeRuns or clear ran while a
\* read was suspended, getRunInfo finds for the runId of every stored
\* diagnostic a run, and this run is of the document the diagnostic came from.
C26_NoOrphanDiagnostics ==
  \A i \in DOMAIN AllStored :
    /\ getRunInfo(Cur, heap[AllStored[i]].runId) # 0
    /\ runInfoCollection[getRunInfo(Cur, heap[AllStored[i]].runId)].sarifFileFullPath
         = heap[AllStored[i]].sarifFile

\* C28: in every state the ids of the runs of the run collection increase
\* strictly in the order of the collection, whatever documents were read and
\* closed and however often the collection was cleared; getRunInfo(id) then
\* finds the only run of that id.
C28_RunIdsIncreasing ==
  /\ \A i, j \in DOMAIN runInfoCollection :
       i < j => runInfoCollection[i].id < runInfoCollection[j].id
  /\ \A i \in DOMAIN runInfoCollection :
       getRunInfo(Cur, runInfoCollection[i].id) = i

\* a document was read after the runs of another had been removed from the
\* front of the collection: the ids no longer start at 0
C28_Witness ==
  /\ lastCall.op = "read"
  /\ Len(runInfoCollection) >= 2
  /\ runInfoCollection[1].id >= 1
  /\ runInfoCollection[Len(runInfoCollection)].id = highestIssued

\* C27 (as claimed): the code flows that a read creates for a run are those
\* that the thread flow locations of this run alone give: a step that names an
\* index takes the entry of its own run, or stays as it is when its run has no
\* such entry, whatever was read, closed and cleared before.
C27_ScopedToItsRun ==
  lastCall.op = "read" =>
    lastCall.output =
      create(fileRemapping,
             mapThreadFlowLocationsFromRun(lastCall.issued[1],
                                           lastCall.input.threadFlowLocations),
             lastCall.issued[1], lastCall.input.codeFlows)

\* a region as SARIF allows it: lines and columns from 1, the end line not
\* before the start line, offset and length not negative
ValidRegion(region) ==
  /\ Has(region, "startLine") => region.startLine >= 1
  /\ Has(region, "startColumn") => region.startColumn >= 1
  /\ Has(region, "endColumn") => region.endColumn >= 1
  /\ (Has(region, "startLine") /\ Has(region, "endLine")) => region.endLine >= region.startLine
  /\ Has(region, "charOffset") => region.charOffset >= 0
  /\ Has(region, "charLength") => region.charLength >= 0

\* C29 (as claimed): for every valid region, with or without a snippet of any
\* length, the range of parseRange has four coordinates that are not negative
\* and a start that is not after its end.
C29_WellFormedRange ==
  (lastCall.op = "parseRange" /\ ValidRegion(lastCall.input))
  => LET range == lastCall.output.range
     IN /\ range.start.line >= 0 /\ range.start.character >= 0
        /\ range.end.line >= 0 /\ range.end.character >= 0
        /\ \/ range.start.line < range.end.line
           \/ /\ range.start.line = range.end.line
              /\ range.start.character <= range.end.character

\* Scan.isScanRunning()
isScanRunning == scanState.scanInProgress

\* C30: at most one subprocess runs at any time; isScanRunning() is true while
\* a call of performSastScan is on its way to its subprocess and while the
\* subprocess runs; a call made while it is true starts no process and changes
\* nothing; and when the subprocess closes it is false, no process runs, and the
\* next call starts a scan.
C30_ScanMutualExclusion ==
  [][/\ Len(scanState.processes) <= 1 /\ Len(scanState'.processes) <= 1
     /\ (scanState'.processes # <<>> \/ scanState'.deleting # <<>>)
          => scanState'.scanInProgress
     /\ (lastCall'.op = "performSastScan" /\ isScanRunning)
          => (scanState' = scanState /\ lastCall'.output = "ignored")
     /\ lastCall'.op = "close"
          => /\ ~scanState'.scanInProgress /\ scanState'.processes = <<>>
             /\ performSastScan(scanState', "docker", FALSE, TRUE).outcome = "awaiting"
    ]_vars

\* the second subprocess runs, the first having closed, and a call made now
\* has been ignored
C30_Witness ==
  /\ lastCall.op = "performSastScan" /\ lastCall.output = "ignored"
  /\ scanState.spawned = 2
  /\ Len(scanState.processes) = 1

====
